---- MODULE Spec2Model ----
(***************************************************************************)
(* Multiplayer blackjack table engine of backend/app/realtime/             *)
(* socket_server.py: one table, its round state (TableTurnState), the      *)
(* ready-up cycle, player actions, the turn-timeout sweep, player removal  *)
(* and settlement against the balance store.                               *)
(*                                                                         *)
(* Money is counted in cents (the code rounds every amount to 2 decimals). *)
(* A card is modelled by its rank: the suit never influences the engine.   *)
(* Python's None is the string "none" for names and the empty sequence     *)
(* for an optional number (<<x>> when set).                                *)
(***************************************************************************)
EXTENDS Integers, Sequences, FiniteSets, TLC

VARIABLES
    table_players,      \* LobbyTable.players of the one table
    table_ready,        \* _table_ready[table]
    table_pending_bets, \* _table_pending_bets[table]
    turn_state,         \* _table_turn_states.get(table): a TableTurnState or NoRound
    balance,            \* User.balance in the database, in cents
    table_forced_shoes, \* _table_forced_shoes.get(table): the registered list, <<>> when unset
    db_last,            \* how the last settlement's database transaction ended
    used_round_ids,     \* the round ids uuid4() has handed out so far
    set_ready_suspended, \* the set_ready handlers suspended at `await _emit_table_snapshot`
    scored_hand,        \* the argument of a call hand_score(cards)
    scored_total,       \* <<its return value>>, <<>> before the call returns
    user_to_sids,       \* _user_to_sids: the live connections of each user ({}: no entry)
    reconnect_deadlines, \* _reconnect_deadlines: the deadline of each user (None: no entry)
    timer_sweep,        \* a pass of _process_turn_timeouts suspended at an await: what it holds
    lobby_tables,       \* LobbyService._tables: table id -> LobbyTable
    tables_created,     \* how many table ids uuid4() has handed out
    table_chat_banned,  \* _table_chat_banned: table id -> banned user ids ({}: no entry)
    moderation_suspended \* a moderate_table_chat handler suspended at `await sio.get_session`

table_vars == <<table_players, table_ready, table_pending_bets, turn_state, balance,
                table_forced_shoes, db_last, used_round_ids, set_ready_suspended>>
score_vars == <<scored_hand, scored_total>>
presence_vars == <<user_to_sids, reconnect_deadlines>>
lobby_vars == <<lobby_tables, tables_created, table_chat_banned, moderation_suspended>>
\* what the handlers of the table engine leave alone
side_vars == <<scored_hand, scored_total, user_to_sids, reconnect_deadlines>>
vars == <<table_players, table_ready, table_pending_bets, turn_state, balance,
          table_forced_shoes, db_last, used_round_ids, set_ready_suspended,
          scored_hand, scored_total, user_to_sids, reconnect_deadlines, timer_sweep,
          lobby_tables, tables_created, table_chat_banned, moderation_suspended>>

-----------------------------------------------------------------------------
(* Bounds of the exploration *)

CopiesPerRank == 2
\* the longest hand handed to hand_score on its own
MaxHandLen == 4
\* the most set_ready handlers suspended at one time
MaxSuspended == 2

(* Program constants *)

MAX_ACTION_LOG_ITEMS == 80
MAX_ACTION_IDS_PER_TABLE == 300
MAX_TABLE_PLAYER_HANDS == 2
DEFAULT_TABLE_BET == 1000
MIN_TABLE_BET == 100
MAX_TABLE_BET == 100000
TURN_SECONDS == 8

-----------------------------------------------------------------------------
(* Universe of the exploration *)

Users == {"u1", "u2", "u3"}
RANKS == <<"A", "2", "3", "4", "5", "6", "7", "8", "9", "10", "J", "Q", "K">>
\* the ranks of the cards in the shoes of the tables explored
CardRanks == {"A", "K"}
RankOrder == <<"A", "K">>
\* the tables explored: two seats drawing from a shuffled deck, and two tables
\* with a draw order installed by _set_forced_shoe_draw_order before the round:
\* three seats where u1 is dealt a natural blackjack, u2 and u3 a pair of kings and
\* the dealer an ace up and a king in the hole; and two seats where u2 is dealt a
\* pair of eights, u3 a hard 17 and the dealer 2 up and 4 in the hole, with an ace
\* as the next card
ForcedDrawOrder == <<"K", "K", "K", "A", "A", "K", "K", "K", "A", "K", "K", "K">>
LowDrawOrder == <<"8", "10", "2", "8", "7", "4", "A", "5", "9", "3", "10", "6", "7", "2">>
InitialTables == {[players |-> <<"u1", "u2">>, draw_order |-> <<>>],
                  [players |-> <<"u1", "u2", "u3">>, draw_order |-> ForcedDrawOrder],
                  [players |-> <<"u2", "u3">>, draw_order |-> LowDrawOrder]}
\* the round ids uuid4() can hand out: one round is played per table
RoundIds == {"r1"}
RequestedBets == {101}
\* u1 cannot cover its wager, u2 can cover every extra wager, u3 its wager only
InitialBalance == [u \in Users |-> CASE u = "u1" -> 60 [] u = "u2" -> 5000 [] OTHER -> 120]
TurnActions == {"hit", "stand", "double_down", "split", "surrender", "insurance"}
\* what a request may carry; the requests that change the table carry a well-formed
\* action and either no action_id or the id "a1"
RequestedActions == TurnActions \cup {"bogus"}
RequestedActionIds == {"none", "a1", "bad id"}
SubmittedActionIds == {"none", "a1"}

NoRound == [status |-> "idle"]
None == "none"
\* no pass of the turn timer is suspended, and the last one timed no turn out
NoSweep == [pc |-> "idle", timed_out_user |-> None]
\* the ids uuid4() hands out to tables, in the order it does
NewTableIds == <<"t1", "t2", "t3", "t4", "t5">>
\* LobbyService with no table
NoTables == [t \in {} |-> 0]
\* no user is banned from any table
NoBans == [t \in {NewTableIds[i] : i \in 1..Len(NewTableIds)} |-> {}]
\* no moderate_table_chat handler is suspended
NoModeration == [actor |-> None]

-----------------------------------------------------------------------------
(* Sequence helpers *)

Range(s) == {s[i] : i \in 1..Len(s)}
Max(a, b) == IF a >= b THEN a ELSE b
Min(a, b) == IF a <= b THEN a ELSE b

RECURSIVE SumSeq(_)
SumSeq(s) == IF s = <<>> THEN 0 ELSE s[1] + SumSeq(Tail(s))

RemoveFromSeq(s, x) == SelectSeq(s, LAMBDA y : y # x)

\* list(reversed(s))
Reverse(s) == [i \in 1..Len(s) |-> s[Len(s) + 1 - i]]

-----------------------------------------------------------------------------
(* Card / hand engine: blackjack_service.py *)

card_value(card) ==
    IF card \in {"J", "Q", "K"} THEN 10
    ELSE IF card = "A" THEN 11
    ELSE CASE card = "2" -> 2 [] card = "3" -> 3 [] card = "4" -> 4
           [] card = "5" -> 5 [] card = "6" -> 6 [] card = "7" -> 7
           [] card = "8" -> 8 [] card = "9" -> 9 [] card = "10" -> 10

RECURSIVE DowngradeAces(_, _)
DowngradeAces(score, aces) ==
    IF score > 21 /\ aces > 0 THEN DowngradeAces(score - 10, aces - 1) ELSE score

\* hand_score whose loop body runs at most once: one Ace at most is counted as 1
hand_score_one_downgrade(cards) ==
    LET score == SumSeq([i \in 1..Len(cards) |-> card_value(cards[i])])
    IN  IF score > 21 /\ \E i \in 1..Len(cards) : cards[i] = "A" THEN score - 10 ELSE score

hand_score(cards) ==
    DowngradeAces(SumSeq([i \in 1..Len(cards) |-> card_value(cards[i])]),
                  Cardinality({i \in 1..Len(cards) : cards[i] = "A"}))

natural_blackjack(cards) == Len(cards) = 2 /\ hand_score(cards) = 21

\* A shoe is [order, bag]: `order` the cards whose place in the list is known (a
\* forced shoe), pop() taking the last one; `bag` the shuffled cards (rank ->
\* copies left). The shuffle is uniform and the order of the undealt cards is read
\* by nothing but pop(), so the order of the shuffled cards is decided at the draw.
EmptyBag == [r \in CardRanks |-> 0]

\* build_deck(): the full deck, freshly shuffled
build_deck == [order |-> <<>>, bag |-> [r \in CardRanks |-> CopiesPerRank]]

\* _set_forced_shoe_draw_order registering the draw order as it is given
set_forced_shoe_draw_order_as_given(draw_order) == draw_order

\* _set_forced_shoe_draw_order: the list registered for a draw order (the cards of
\* the model are written in upper case with no blanks around them)
set_forced_shoe_draw_order(draw_order) == Reverse(draw_order)

\* list(forced_shoe): the shoe made of a registered list
forced_shoe_deck(forced_shoe) == [order |-> forced_shoe, bag |-> EmptyBag]

shoe_size(shoe) ==
    Len(shoe.order) + SumSeq([i \in 1..Len(RankOrder) |-> shoe.bag[RankOrder[i]]])

\* _card_rank(card): the card without its suit
card_rank(card) == card

\* _draw_table_card(state): the possible <<card, shoe after the draw>>
draw_table_card(shoe) ==
    LET stock == IF shoe_size(shoe) = 0 THEN build_deck ELSE shoe
    IN  IF stock.order # <<>>
        THEN {<<stock.order[Len(stock.order)],
                [stock EXCEPT !.order = SubSeq(@, 1, Len(@) - 1)]>>}
        ELSE {<<r, [stock EXCEPT !.bag[r] = @ - 1]>> : r \in {x \in CardRanks : stock.bag[x] > 0}}

-----------------------------------------------------------------------------
(* Amounts: round(x, 2) on the float amounts the code computes, in cents *)

\* the odd cent amounts b for which the double nearest to b/200 lies above the tie
FloatHalfRoundsUp == {101}
\* the odd cent amounts b for which the double b/100 * 1.5 lies above the tie
FloatThreeHalvesRoundsUp == {101}

\* round(bet / 2, 2)
round_half(bet) ==
    IF bet % 2 = 0 THEN bet \div 2
    ELSE IF bet \in FloatHalfRoundsUp THEN (bet + 1) \div 2 ELSE (bet - 1) \div 2

\* round(bet * 1.5, 2)
round_three_halves(bet) ==
    IF bet % 2 = 0 THEN (3 * bet) \div 2
    ELSE IF bet \in FloatThreeHalvesRoundsUp THEN (3 * bet + 1) \div 2 ELSE (3 * bet - 1) \div 2

\* _normalize_table_bet(raw): the requested bets of the model are numbers
normalize_table_bet(raw) == Max(MIN_TABLE_BET, Min(MAX_TABLE_BET, raw))

\* _next_deadline(seconds) relative to the clock: still ahead, or already reached
next_deadline(seconds) == IF seconds > 0 THEN "future" ELSE "elapsed"

-----------------------------------------------------------------------------
(* Round state: the dataclasses TableHandState, TablePlayerState, TableTurnState *)

TableHandState(cards, bet, is_split) ==
    [cards |-> cards, bet |-> bet, status |-> "active", result |-> None,
     payout |-> <<>>, is_split_hand |-> is_split, doubled_down |-> FALSE]

TablePlayerState(hands, bet, bankroll) ==
    [hands |-> hands, active_hand_index |-> 0, completed |-> FALSE,
     base_bet |-> bet, bankroll_at_start |-> bankroll, committed_bet |-> bet,
     total_payout |-> 0, insurance_bet |-> 0, insurance_decided |-> FALSE,
     insurance_payout |-> 0]

TableTurnState(players, round_id, shoe) ==
    [players |-> players, turn_index |-> 0, turn_seconds |-> TURN_SECONDS,
     turn_deadline |-> next_deadline(TURN_SECONDS), round_id |-> round_id,
     status |-> "active", phase |-> "player_turns", dealer_cards |-> <<>>,
     dealer_hidden |-> TRUE, shoe |-> shoe,
     player_states |-> [u \in {} |-> 0],
     last_action |-> <<>>, action_log |-> <<>>, processed_action_ids |-> <<>>]

current_turn_user_id(st) ==
    IF st.status # "active" \/ st.phase # "player_turns" \/ Len(st.players) = 0
    THEN None
    ELSE st.players[(st.turn_index % Len(st.players)) + 1]

\* _current_turn_player_state(state) is not None
has_current_player_state(st) ==
    current_turn_user_id(st) # None /\ current_turn_user_id(st) \in DOMAIN st.player_states

current_turn_player_state(st) == st.player_states[current_turn_user_id(st)]

\* _current_turn_hand(state) is not None
has_current_hand(st) ==
    /\ has_current_player_state(st)
    /\ current_turn_player_state(st).active_hand_index >= 0
    /\ current_turn_player_state(st).active_hand_index < Len(current_turn_player_state(st).hands)

current_turn_hand(st) ==
    current_turn_player_state(st).hands[current_turn_player_state(st).active_hand_index + 1]

hand_is_playable(hand) ==
    hand.status = "active" /\ hand.result = None /\ hand_score(hand.cards) < 21

can_split_hand(player_state, hand) ==
    /\ Len(player_state.hands) < MAX_TABLE_PLAYER_HANDS
    /\ hand.status = "active" /\ hand.result = None /\ Len(hand.cards) = 2
    /\ card_rank(hand.cards[1]) = card_rank(hand.cards[2])
    /\ player_state.committed_bet + hand.bet <= player_state.bankroll_at_start

\* _can_double_down with no test of the bankroll
can_double_down_uncovered(player_state, hand) ==
    /\ hand.status = "active" /\ hand.result = None /\ Len(hand.cards) = 2
    /\ ~hand.doubled_down

can_double_down(player_state, hand) ==
    /\ hand.status = "active" /\ hand.result = None /\ Len(hand.cards) = 2
    /\ ~hand.doubled_down
    /\ player_state.committed_bet + hand.bet <= player_state.bankroll_at_start

\* the insurance wager set to the whole base bet
insurance_bet_amount_whole(player_state) == Max(0, player_state.base_bet)

insurance_bet_amount(player_state) == Max(0, round_half(player_state.base_bet))

\* _can_take_insurance with no test of the insurance amount against the bankroll
can_take_insurance_uncovered(st, player_state, hand) ==
    /\ Len(st.dealer_cards) # 0
    /\ card_rank(st.dealer_cards[1]) = "A"
    /\ st.dealer_hidden
    /\ ~player_state.insurance_decided
    /\ hand.status = "active" /\ hand.result = None
    /\ player_state.active_hand_index = 0 /\ Len(hand.cards) = 2

can_take_insurance(st, player_state, hand) ==
    /\ Len(st.dealer_cards) # 0
    /\ card_rank(st.dealer_cards[1]) = "A"
    /\ st.dealer_hidden
    /\ ~player_state.insurance_decided
    /\ hand.status = "active" /\ hand.result = None
    /\ player_state.active_hand_index = 0 /\ Len(hand.cards) = 2
    /\ insurance_bet_amount(player_state) > 0
    /\ player_state.committed_bet + insurance_bet_amount(player_state)
           <= player_state.bankroll_at_start

can_surrender(hand) ==
    /\ hand.status = "active" /\ hand.result = None
    /\ ~hand.is_split_hand /\ ~hand.doubled_down
    /\ Len(hand.cards) = 2
    /\ hand_score(hand.cards) < 21

\* the list the code returns, in its order
available_actions_for_current_turn(st) ==
    IF st.status # "active" \/ st.phase # "player_turns" THEN <<>>
    ELSE IF ~has_current_hand(st) THEN <<>>
    ELSE IF ~hand_is_playable(current_turn_hand(st)) THEN <<>>
    ELSE LET ps == current_turn_player_state(st)
             hand == current_turn_hand(st)
         IN  <<"hit", "stand">>
             \o (IF can_double_down(ps, hand) THEN <<"double_down">> ELSE <<>>)
             \o (IF can_split_hand(ps, hand) THEN <<"split">> ELSE <<>>)
             \o (IF can_surrender(hand) THEN <<"surrender">> ELSE <<>>)
             \o (IF can_take_insurance(st, ps, hand) THEN <<"insurance">> ELSE <<>>)

record_turn_action(st, action, user_id, auto_declined) ==
    LET entry == [user_id |-> user_id, action |-> action, insurance_auto_declined |-> auto_declined]
        log == Append(st.action_log, entry)
    IN  [st EXCEPT !.last_action = <<entry>>,
                   !.action_log = IF Len(log) > MAX_ACTION_LOG_ITEMS
                                  THEN SubSeq(log, Len(log) - MAX_ACTION_LOG_ITEMS + 1, Len(log))
                                  ELSE log]

-----------------------------------------------------------------------------
(* Turn order: _position_to_next_playable_turn *)

\* an inner loop that takes the hand at idx whatever its state
skip_to_playable_hand_none(hands, idx) == idx

\* the inner while loop: the first index >= idx of a playable hand, else past the end
RECURSIVE skip_to_playable_hand(_, _)
skip_to_playable_hand(hands, idx) ==
    IF idx < Len(hands)
    THEN IF hand_is_playable(hands[idx + 1]) THEN idx
         ELSE skip_to_playable_hand(hands, idx + 1)
    ELSE idx

RECURSIVE position_loop(_, _)
position_loop(st, examined_players) ==
    IF examined_players >= Len(st.players) THEN [found |-> FALSE, st |-> st]
    ELSE LET user_id == st.players[st.turn_index + 1]
             next_index == (st.turn_index + 1) % Len(st.players)
         IN  IF user_id \notin DOMAIN st.player_states
             THEN position_loop([st EXCEPT !.turn_index = next_index], examined_players + 1)
             ELSE LET ps == st.player_states[user_id]
                      idx == skip_to_playable_hand(ps.hands, ps.active_hand_index)
                  IN  IF idx < Len(ps.hands)
                      THEN [found |-> TRUE,
                            st |-> [st EXCEPT !.player_states[user_id].active_hand_index = idx,
                                              !.player_states[user_id].completed = FALSE,
                                              !.turn_deadline = next_deadline(st.turn_seconds)]]
                      ELSE position_loop(
                               [st EXCEPT !.player_states[user_id].active_hand_index = idx,
                                          !.player_states[user_id].completed = TRUE,
                                          !.turn_index = next_index],
                               examined_players + 1)

position_to_next_playable_turn(st) ==
    IF Len(st.players) = 0 THEN [found |-> FALSE, st |-> st]
    ELSE position_loop(
             IF st.turn_index < 0 \/ st.turn_index >= Len(st.players)
             THEN [st EXCEPT !.turn_index = 0] ELSE st,
             0)

-----------------------------------------------------------------------------
(* Dealer play and settlement: _settle_table_round *)

\* a dealer who draws one card at most
dealer_draws_once(st) ==
    IF hand_score(st.dealer_cards) < 17
    THEN { record_turn_action(
               [st EXCEPT !.dealer_cards = Append(@, d[1]), !.shoe = d[2]],
               "dealer_hit", None, FALSE)
           : d \in draw_table_card(st.shoe) }
    ELSE {st}

\* the dealer's while loop: the possible states once the dealer stops drawing
RECURSIVE dealer_draws(_)
dealer_draws(st) ==
    IF hand_score(st.dealer_cards) < 17
    THEN UNION { dealer_draws(record_turn_action(
                     [st EXCEPT !.dealer_cards = Append(@, d[1]), !.shoe = d[2]],
                     "dealer_hit", None, FALSE))
                 : d \in draw_table_card(st.shoe) }
    ELSE {st}

\* the loop body that takes every two-card 21 for a natural, split hands included
settle_hand_split_natural(hand, dealer_cards) ==
    LET dealer_has_blackjack == natural_blackjack(dealer_cards)
        dealer_score == hand_score(dealer_cards)
        player_score == hand_score(hand.cards)
        player_has_blackjack == natural_blackjack(hand.cards)
    IN  IF hand.result = "bust"
        THEN [hand EXCEPT !.status = "resolved", !.payout = <<-hand.bet>>]
        ELSE IF hand.result = "surrender"
        THEN [hand EXCEPT !.status = "resolved", !.payout = <<-round_half(hand.bet)>>]
        ELSE IF player_has_blackjack /\ dealer_has_blackjack
        THEN [hand EXCEPT !.status = "resolved", !.result = "push", !.payout = <<0>>]
        ELSE IF player_has_blackjack
        THEN [hand EXCEPT !.status = "resolved", !.result = "blackjack",
                          !.payout = <<round_three_halves(hand.bet)>>]
        ELSE IF dealer_has_blackjack
        THEN [hand EXCEPT !.status = "resolved", !.result = "lose", !.payout = <<-hand.bet>>]
        ELSE IF dealer_score > 21 \/ player_score > dealer_score
        THEN [hand EXCEPT !.status = "resolved", !.result = "win", !.payout = <<hand.bet>>]
        ELSE IF player_score < dealer_score
        THEN [hand EXCEPT !.status = "resolved", !.result = "lose", !.payout = <<-hand.bet>>]
        ELSE [hand EXCEPT !.status = "resolved", !.result = "push", !.payout = <<0>>]

\* the body of the loop over a player's hands
settle_hand(hand, dealer_cards) ==
    LET dealer_has_blackjack == natural_blackjack(dealer_cards)
        dealer_score == hand_score(dealer_cards)
        player_score == hand_score(hand.cards)
        player_has_blackjack == natural_blackjack(hand.cards) /\ ~hand.is_split_hand
    IN  IF hand.result = "bust"
        THEN [hand EXCEPT !.status = "resolved", !.payout = <<-hand.bet>>]
        ELSE IF hand.result = "surrender"
        THEN [hand EXCEPT !.status = "resolved", !.payout = <<-round_half(hand.bet)>>]
        ELSE IF player_has_blackjack /\ dealer_has_blackjack
        THEN [hand EXCEPT !.status = "resolved", !.result = "push", !.payout = <<0>>]
        ELSE IF player_has_blackjack
        THEN [hand EXCEPT !.status = "resolved", !.result = "blackjack",
                          !.payout = <<round_three_halves(hand.bet)>>]
        ELSE IF dealer_has_blackjack
        THEN [hand EXCEPT !.status = "resolved", !.result = "lose", !.payout = <<-hand.bet>>]
        ELSE IF dealer_score > 21
        THEN [hand EXCEPT !.status = "resolved", !.result = "win", !.payout = <<hand.bet>>]
        ELSE IF player_score > dealer_score
        THEN [hand EXCEPT !.status = "resolved", !.result = "win", !.payout = <<hand.bet>>]
        ELSE IF player_score < dealer_score
        THEN [hand EXCEPT !.status = "resolved", !.result = "lose", !.payout = <<-hand.bet>>]
        ELSE [hand EXCEPT !.status = "resolved", !.result = "push", !.payout = <<0>>]

\* the index that restarts at the player's first hand
settled_hand_index_rewound(ps) == 0

\* settlement brings an index past the last hand back onto the last hand
settled_hand_index(ps) ==
    IF ps.active_hand_index >= Len(ps.hands) THEN Max(0, Len(ps.hands) - 1)
    ELSE ps.active_hand_index

\* the loop body paying a won insurance wager once instead of twice
settle_player_insurance_once(ps, dealer_cards) ==
    LET hands == [i \in 1..Len(ps.hands) |-> settle_hand(ps.hands[i], dealer_cards)]
        hands_payout == SumSeq([i \in 1..Len(hands) |-> hands[i].payout[1]])
        insurance_payout ==
            IF ps.insurance_bet > 0
            THEN IF natural_blackjack(dealer_cards) THEN ps.insurance_bet
                 ELSE -ps.insurance_bet
            ELSE 0
    IN  [ps EXCEPT !.completed = TRUE,
                   !.active_hand_index = settled_hand_index(ps),
                   !.hands = hands,
                   !.insurance_payout = insurance_payout,
                   !.total_payout = hands_payout + insurance_payout]

\* the body of the loop over state.player_states
settle_player(ps, dealer_cards) ==
    LET hands == [i \in 1..Len(ps.hands) |-> settle_hand(ps.hands[i], dealer_cards)]
        hands_payout == SumSeq([i \in 1..Len(hands) |-> hands[i].payout[1]])
        insurance_payout ==
            IF ps.insurance_bet > 0
            THEN IF natural_blackjack(dealer_cards) THEN ps.insurance_bet * 2
                 ELSE -ps.insurance_bet
            ELSE 0
    IN  [ps EXCEPT !.completed = TRUE,
                   !.active_hand_index = settled_hand_index(ps),
                   !.hands = hands,
                   !.insurance_payout = insurance_payout,
                   !.total_payout = hands_payout + insurance_payout]

\* the transaction with `balance + total_payout` stored as it is
settle_balances_unfloored(player_states, bal, db_ok) ==
    IF db_ok
    THEN [u \in DOMAIN bal |->
            IF u \in DOMAIN player_states
            THEN bal[u] + player_states[u].total_payout
            ELSE bal[u]]
    ELSE bal

\* the database transaction: every player's balance, or none when it rolls back
settle_balances(player_states, bal, db_ok) ==
    IF db_ok
    THEN [u \in DOMAIN bal |->
            IF u \in DOMAIN player_states
            THEN Max(0, bal[u] + player_states[u].total_payout)
            ELSE bal[u]]
    ELSE bal

\* how the try block around the transaction can end
DbOutcomes == {"commit", "rollback"}

\* _settle_table_round past its first statement: dealer play, payouts, the
\* transaction and the "round_settled" record
settle_open_round(st, bal, completion_reason) ==
         LET revealed == [st EXCEPT !.phase = "dealer_turn", !.dealer_hidden = FALSE]
             has_live_player_hand ==
                 \E u \in DOMAIN st.player_states :
                     \E i \in 1..Len(st.player_states[u].hands) :
                         st.player_states[u].hands[i].result \notin {"bust", "surrender"}
             dealt == IF ~natural_blackjack(st.dealer_cards) /\ has_live_player_hand
                      THEN dealer_draws(revealed) ELSE {revealed}
         IN  { LET player_states == [u \in DOMAIN d.player_states |->
                                        settle_player(d.player_states[u], d.dealer_cards)]
               IN  <<record_turn_action(
                         [d EXCEPT !.player_states = player_states,
                                   !.phase = "settled",
                                   !.status = "ended",
                                   !.turn_deadline = next_deadline(d.turn_seconds)],
                         "round_settled", None, FALSE),
                     settle_balances(player_states, bal, db = "commit"), db>>
               : d \in dealt, db \in DbOutcomes }

\* _settle_table_round with no test of the phase
settle_table_round_again(st, bal, completion_reason) ==
    settle_open_round(st, bal, completion_reason)

\* a settlement that leaves the status of the round alone
settle_table_round_stays_active(st, bal, completion_reason) ==
    IF st.phase = "settled" THEN {<<st, bal, "none">>}
    ELSE { <<[r[1] EXCEPT !.status = "active"], r[2], r[3]>>
           : r \in settle_open_round(st, bal, completion_reason) }

\* the possible <<state, balances, transaction outcome>> after
\* _settle_table_round(state, reason); "none": no transaction was run
settle_table_round(st, bal, completion_reason) ==
    IF st.phase = "settled" THEN {<<st, bal, "none">>}
    ELSE settle_open_round(st, bal, completion_reason)

-----------------------------------------------------------------------------
(* Player actions: _apply_table_action *)

\* a stand that also writes a result on the hand
stand_hand_with_result(hand) == [hand EXCEPT !.status = "stood", !.result = "stand"]

\* the `stand` branch on the hand: hand.status = "stood"
stand_hand(hand) == [hand EXCEPT !.status = "stood"]

\* a surrender that gives up the whole wager
surrender_hand_whole_wager(hand) ==
    [hand EXCEPT !.status = "surrendered", !.result = "surrender", !.payout = <<-hand.bet>>]

\* the `surrender` branch on the hand
surrender_hand(hand) ==
    [hand EXCEPT !.status = "surrendered", !.result = "surrender",
                 !.payout = <<-round_half(hand.bet)>>]

\* a split whose new hand carries no wager
split_hands_unpaid(hand, first_card, second_card) ==
    <<[hand EXCEPT !.cards = <<hand.cards[1], first_card>>,
                   !.is_split_hand = TRUE,
                   !.status = IF hand_score(<<hand.cards[1], first_card>>) = 21
                              THEN "stood" ELSE @],
      TableHandState(<<hand.cards[2], second_card>>, 0, TRUE)>>

\* the `split` branch on the hand, given the two cards drawn: <<the hand, the new hand>>
split_hands(hand, first_card, second_card) ==
    <<[hand EXCEPT !.cards = <<hand.cards[1], first_card>>,
                   !.is_split_hand = TRUE,
                   !.status = IF hand_score(<<hand.cards[1], first_card>>) = 21
                              THEN "stood" ELSE @],
      TableHandState(<<hand.cards[2], second_card>>, hand.bet, TRUE)>>

\* the possible states after the branch of `action` has changed the current hand
action_effects(st, user_id, action) ==
    LET ps == st.player_states[user_id]
        hi == ps.active_hand_index + 1
        hand == ps.hands[hi]
    IN  CASE action = "stand" ->
               {[st EXCEPT !.player_states[user_id].hands[hi] = stand_hand(hand),
                           !.player_states[user_id].active_hand_index = @ + 1]}
          [] action = "hit" ->
               { LET cards == Append(hand.cards, d[1])
                     score == hand_score(cards)
                     drawn == [st EXCEPT !.shoe = d[2],
                                         !.player_states[user_id].hands[hi].cards = cards]
                 IN  IF score > 21
                     THEN [drawn EXCEPT !.player_states[user_id].hands[hi].status = "bust",
                                        !.player_states[user_id].hands[hi].result = "bust",
                                        !.player_states[user_id].hands[hi].payout = <<-hand.bet>>,
                                        !.player_states[user_id].active_hand_index = @ + 1]
                     ELSE IF score = 21
                     THEN [drawn EXCEPT !.player_states[user_id].hands[hi].status = "stood",
                                        !.player_states[user_id].active_hand_index = @ + 1]
                     ELSE drawn
                 : d \in draw_table_card(st.shoe) }
          [] action = "double_down" ->
               { LET cards == Append(hand.cards, d[1])
                     score == hand_score(cards)
                     drawn == [st EXCEPT !.shoe = d[2],
                                         !.player_states[user_id].hands[hi].bet = hand.bet * 2,
                                         !.player_states[user_id].hands[hi].doubled_down = TRUE,
                                         !.player_states[user_id].committed_bet = @ + hand.bet,
                                         !.player_states[user_id].hands[hi].cards = cards,
                                         !.player_states[user_id].active_hand_index = @ + 1]
                 IN  IF score > 21
                     THEN [drawn EXCEPT !.player_states[user_id].hands[hi].status = "bust",
                                        !.player_states[user_id].hands[hi].result = "bust",
                                        !.player_states[user_id].hands[hi].payout = <<-(hand.bet * 2)>>]
                     ELSE [drawn EXCEPT !.player_states[user_id].hands[hi].status = "stood"]
                 : d \in draw_table_card(st.shoe) }
          [] action = "split" ->
               UNION { { LET split == split_hands(hand, d1[1], d2[1])
                             left == split[1]
                             split_hand == split[2]
                             hands == SubSeq(ps.hands, 1, hi - 1) \o <<left, split_hand>>
                                      \o SubSeq(ps.hands, hi + 1, Len(ps.hands))
                         IN  [st EXCEPT !.shoe = d2[2],
                                        !.player_states[user_id].committed_bet = @ + hand.bet,
                                        !.player_states[user_id].hands = hands,
                                        !.player_states[user_id].active_hand_index =
                                            IF left.status = "stood" THEN @ + 1 ELSE @]
                         : d2 \in draw_table_card(d1[2]) }
                       : d1 \in draw_table_card(st.shoe) }
          [] action = "surrender" ->
               {[st EXCEPT !.player_states[user_id].hands[hi] = surrender_hand(hand),
                           !.player_states[user_id].active_hand_index = @ + 1]}

\* after the branch: record the action, move to the next playable hand or settle
advance_or_settle(st, bal, user_id, action_name, auto_declined) ==
    LET recorded == record_turn_action(st, action_name, user_id, auto_declined)
        positioned == position_to_next_playable_turn(recorded)
    IN  IF positioned.found
        THEN {[round_finished |-> FALSE, error |-> None, st |-> positioned.st, bal |-> bal,
               db |-> "none"]}
        ELSE {[round_finished |-> TRUE, error |-> None, st |-> r[1], bal |-> r[2], db |-> r[3]]
              : r \in settle_table_round(positioned.st, bal, "all_player_hands_resolved")}

\* an early return that first records the refused attempt in the action log
rejected_recorded(st, bal, error) ==
    {[round_finished |-> FALSE, error |-> error, bal |-> bal, db |-> "none",
      st |-> record_turn_action(st, "rejected", None, FALSE)]}

\* the early returns `return False, error`
rejected(st, bal, error) ==
    {[round_finished |-> FALSE, error |-> error, st |-> st, bal |-> bal, db |-> "none"]}

\* a non-insurance action that leaves the insurance decision open
decline_insurance_skipped(st, user_id) == st

\* the implicit decline: player_state.insurance_decided = True
decline_insurance(st, user_id) ==
    [st EXCEPT !.player_states[user_id].insurance_decided = TRUE]

\* the possible results (round_finished, error) with the state and balances left behind
apply_table_action(st, bal, user_id, action, timed_out) ==
    IF st.status # "active" \/ st.phase # "player_turns" THEN rejected(st, bal, "no active round")
    ELSE IF user_id # current_turn_user_id(st) THEN rejected(st, bal, "not your turn")
    ELSE IF ~has_current_hand(st) THEN rejected(st, bal, "no active hand")
    ELSE IF ~hand_is_playable(current_turn_hand(st)) THEN rejected(st, bal, "hand is already resolved")
    ELSE IF action \notin Range(available_actions_for_current_turn(st))
    THEN rejected(st, bal, "action not allowed")
    ELSE LET ps == current_turn_player_state(st)
             hand == current_turn_hand(st)
             auto_declined == action # "insurance" /\ can_take_insurance(st, ps, hand)
             declined == IF auto_declined THEN decline_insurance(st, user_id) ELSE st
         IN  IF action = "insurance"
             THEN LET insurance_bet == insurance_bet_amount(ps)
                      insured == [st EXCEPT !.player_states[user_id].insurance_bet = insurance_bet,
                                            !.player_states[user_id].insurance_decided = TRUE,
                                            !.player_states[user_id].committed_bet = @ + insurance_bet]
                  IN  {[round_finished |-> FALSE, error |-> None, bal |-> bal, db |-> "none",
                        st |-> [record_turn_action(insured, action, user_id, FALSE)
                                  EXCEPT !.turn_deadline = next_deadline(st.turn_seconds)]]}
             ELSE UNION { advance_or_settle(
                              e, bal, user_id,
                              IF timed_out THEN "turn_timeout_auto_stand" ELSE action,
                              auto_declined)
                          : e \in action_effects(declined, user_id, action) }

-----------------------------------------------------------------------------
(* Round start: _start_table_game *)

\* n successive _draw_table_card calls: the possible <<cards drawn, shoe left>>
RECURSIVE draw_cards(_, _)
draw_cards(shoe, n) ==
    IF n = 0 THEN {<<<<>>, shoe>>}
    ELSE UNION { {<<(<<d[1]>>) \o r[1], r[2]>> : r \in draw_cards(d[2], n - 1)}
                 : d \in draw_table_card(shoe) }

\* the state after the deal and the natural-blackjack marks, given the cards drawn
dealt_table_state(players, pending_bets, bal, round_id, drawn, shoe) ==
    LET n == Len(players)
        bet_of(u) == normalize_table_bet(IF u \in DOMAIN pending_bets
                                         THEN pending_bets[u] ELSE DEFAULT_TABLE_BET)
        first_hand(i) == TableHandState(<<drawn[i], drawn[n + 1 + i]>>, bet_of(players[i]), FALSE)
        position(u) == CHOOSE i \in 1..n : players[i] = u
        player_state(u) ==
            LET ps == TablePlayerState(<<first_hand(position(u))>>, bet_of(u),
                                       Max(IF u \in DOMAIN bal THEN bal[u] ELSE bet_of(u), bet_of(u)))
            IN  IF natural_blackjack(ps.hands[1].cards)
                THEN [ps EXCEPT !.hands[1].status = "blackjack", !.active_hand_index = 1]
                ELSE ps
    IN  record_turn_action(
            [TableTurnState(players, round_id, shoe)
               EXCEPT !.dealer_cards = <<drawn[n + 1], drawn[2 * n + 2]>>,
                      !.dealer_hidden = TRUE,
                      !.player_states = [u \in Range(players) |-> player_state(u)]],
            "table_game_started", None, FALSE)

\* the possible <<state, balances>> _start_table_game(table) registers
start_table_game(players, pending_bets, bal, forced_shoe, round_id) ==
    UNION { LET dealt == dealt_table_state(players, pending_bets, bal, round_id, r[1], r[2])
                positioned == position_to_next_playable_turn(dealt)
            IN  IF positioned.found THEN {<<positioned.st, bal, "none">>}
                ELSE settle_table_round(positioned.st, bal, "immediate_settle")
            : r \in draw_cards(IF forced_shoe # <<>> THEN forced_shoe_deck(forced_shoe)
                               ELSE build_deck,
                               2 * Len(players) + 2) }

-----------------------------------------------------------------------------
(* Action ids: _is_valid_action_id, _track_turn_action_id *)

\* ACTION_ID_PATTERN: letters, digits, "_" and "-" only
is_valid_action_id(action_id) == action_id \in {"none", "a1", "a2"}

\* _track_turn_action_id that remembers the ids and never reports one as seen
track_turn_action_id_unseen(processed, action_id) ==
    <<FALSE, IF action_id = None \/ action_id \in Range(processed) THEN processed
             ELSE Append(processed, action_id)>>

\* <<already seen, processed_action_ids afterwards>>
track_turn_action_id(processed, action_id) ==
    IF action_id = None THEN <<FALSE, processed>>
    ELSE IF action_id \in Range(processed) THEN <<TRUE, processed>>
    ELSE LET added == Append(processed, action_id)
         IN  <<FALSE, IF Len(added) > MAX_ACTION_IDS_PER_TABLE THEN Tail(added) ELSE added>>

-----------------------------------------------------------------------------
(* Turn timer: _process_turn_timeouts, _stop_table_game *)

\* the while loop of the sweep on one table: the possible results
RECURSIVE timeout_loop(_, _, _, _, _)
timeout_loop(st, bal, db, safety, emits) ==
    IF st.status = "active" /\ st.turn_deadline = "elapsed" /\ safety < 8
    THEN IF current_turn_user_id(st) = None
         THEN {[st |-> st, bal |-> bal, db |-> db, emits |-> emits]}
         ELSE UNION { IF r.error # None
                      THEN {[st |-> r.st, bal |-> r.bal, db |-> db, emits |-> emits]}
                      ELSE timeout_loop(r.st, r.bal, r.db, safety + 1,
                                        emits \o <<"turn_timeout">>
                                              \o (IF r.round_finished THEN <<"table_round_resolved">>
                                                  ELSE <<>>)
                                              \o <<"table_game_state">>)
                      : r \in apply_table_action(st, bal, current_turn_user_id(st), "stand", TRUE) }
    ELSE {[st |-> st, bal |-> bal, db |-> db, emits |-> emits]}

\* a sweep that stands for the current player whatever the deadline
process_turn_timeouts_undue(st, players, bal) ==
    IF st = NoRound THEN {[st |-> st, bal |-> bal, db |-> "none", emits |-> <<>>]}
    ELSE IF Len(players) < 2 \/ Len(st.players) < 2
    THEN {[st |-> NoRound, bal |-> bal, db |-> "none",
           emits |-> <<"table_game_ended", "table_game_state">>]}
    ELSE IF st.status # "active" \/ st.phase # "player_turns"
    THEN {[st |-> st, bal |-> bal, db |-> "none", emits |-> <<>>]}
    ELSE timeout_loop([st EXCEPT !.turn_deadline = "elapsed"], bal, "none", 0, <<>>)

\* the possible results of _process_turn_timeouts() for the table
process_turn_timeouts(st, players, bal) ==
    IF st = NoRound THEN {[st |-> st, bal |-> bal, db |-> "none", emits |-> <<>>]}
    ELSE IF Len(players) < 2 \/ Len(st.players) < 2
    THEN {[st |-> NoRound, bal |-> bal, db |-> "none",
           emits |-> <<"table_game_ended", "table_game_state">>]}
    ELSE IF st.status # "active" \/ st.phase # "player_turns" \/ st.turn_deadline # "elapsed"
    THEN {[st |-> st, bal |-> bal, db |-> "none", emits |-> <<>>]}
    ELSE timeout_loop(st, bal, "none", 0, <<>>)

-----------------------------------------------------------------------------
(* The take_turn_action event handler *)

turn_reply(ok, error, duplicate, swept, st, bal, db, emits) ==
    [ok |-> ok, error |-> error, duplicate |-> duplicate, swept |-> swept,
     st |-> st, bal |-> bal, db |-> db, emits |-> emits]

\* the handler after its `await _process_turn_timeouts()`, on the swept state
turn_action_after_sweep(sw, players, user_id, action, action_id) ==
    LET refuse(error) == {turn_reply(FALSE, error, FALSE, sw.st, sw.st, sw.bal, sw.db, sw.emits)}
    IN  IF user_id \notin Range(players) THEN refuse("join a table first")
        ELSE IF sw.st = NoRound THEN refuse("no active table round")
        ELSE IF sw.st.status # "active" \/ sw.st.phase # "player_turns"
        THEN refuse("no active table round")
        ELSE IF user_id # current_turn_user_id(sw.st) THEN refuse("not your turn")
        ELSE IF action \notin TurnActions THEN refuse("invalid action")
        ELSE IF action_id # None /\ ~is_valid_action_id(action_id) THEN refuse("invalid action_id")
        ELSE LET tracked == track_turn_action_id(sw.st.processed_action_ids, action_id)
                 st == [sw.st EXCEPT !.processed_action_ids = tracked[2]]
             IN  IF tracked[1]
                 THEN {turn_reply(TRUE, None, TRUE, sw.st, st, sw.bal, sw.db, sw.emits)}
                 ELSE { IF r.error # None
                        THEN turn_reply(FALSE, r.error, FALSE, sw.st, r.st, r.bal, sw.db, sw.emits)
                        ELSE turn_reply(TRUE, None, FALSE, sw.st, r.st, r.bal, r.db,
                                        sw.emits \o <<"turn_action_applied">>
                                                \o (IF r.round_finished
                                                    THEN <<"table_round_resolved">> ELSE <<>>)
                                                \o <<"table_snapshot", "table_game_state">>)
                        : r \in apply_table_action(st, sw.bal, user_id, action, FALSE) }

\* the possible replies of take_turn_action, with the state each leaves behind
take_turn_action(st, players, bal, user_id, action, action_id) ==
    UNION { turn_action_after_sweep(sw, players, user_id, action, action_id)
            : sw \in process_turn_timeouts(st, players, bal) }

-----------------------------------------------------------------------------
(* Player removal: _handle_player_removed_from_turn_state, _clear_user_ready *)

\* the TableTurnState object once user_id is taken out of its players and its
\* player_states and the removal is logged
removed_from_turn_cycle(st, user_id) ==
    record_turn_action(
        [st EXCEPT !.players = RemoveFromSeq(@, user_id),
                   !.player_states = [u \in DOMAIN @ \ {user_id} |-> @[u]]],
        "player_left_turn_cycle", user_id, FALSE)

\* the possible <<state or NoRound, balances, transaction outcome>> once user_id
\* is out of the round
handle_player_removed_from_turn_state(st, bal, user_id) ==
    IF st = NoRound THEN {<<st, bal, "none">>}
    ELSE IF user_id \notin Range(st.players) THEN {<<st, bal, "none">>}
    ELSE LET removed == removed_from_turn_cycle(st, user_id)
             reindexed == IF removed.turn_index >= Len(removed.players)
                          THEN [removed EXCEPT !.turn_index = 0] ELSE removed
         IN  IF Len(removed.players) < 2 THEN {<<NoRound, bal, "none">>}
             ELSE IF reindexed.status = "active" /\ reindexed.phase = "player_turns"
             THEN LET positioned == position_to_next_playable_turn(reindexed)
                  IN  IF positioned.found THEN {<<positioned.st, bal, "none">>}
                      ELSE settle_table_round(positioned.st, bal, "player_removed")
             ELSE {<<reindexed, bal, "none">>}

\* _clear_user_ready(user_id) on the table: <<ready set, pending bets>>
clear_user_ready(ready, pending_bets, user_id) ==
    LET left == ready \ {user_id}
        bets == IF user_id \in ready
                THEN [u \in DOMAIN pending_bets \ {user_id} |-> pending_bets[u]]
                ELSE pending_bets
    IN  IF left = {} THEN <<{}, [u \in {} |-> 0]>> ELSE <<left, bets>>

-----------------------------------------------------------------------------
(* The table as a state machine *)

NoBets == [u \in {} |-> 0]

Init ==
    /\ \E t \in InitialTables :
           /\ table_players = t.players
           /\ table_forced_shoes = IF t.draw_order = <<>> THEN <<>>
                                   ELSE set_forced_shoe_draw_order(t.draw_order)
    /\ table_ready = {}
    /\ table_pending_bets = NoBets
    /\ turn_state = NoRound
    /\ balance = InitialBalance
    /\ db_last = "none"
    /\ used_round_ids = {}
    /\ set_ready_suspended = 0
    /\ scored_hand = <<>>
    /\ scored_total = <<>>
    /\ user_to_sids = [u \in Users |-> IF u \in Range(table_players) THEN {1} ELSE {}]
    /\ reconnect_deadlines = [u \in Users |-> None]
    /\ timer_sweep = NoSweep
    /\ lobby_tables = NoTables
    /\ tables_created = 0
    /\ table_chat_banned = NoBans
    /\ moderation_suspended = NoModeration

\* _stop_table_game pops the pending bets together with the round
pending_after_stop(old_st, new_st, pending_bets) ==
    IF old_st # NoRound /\ new_st = NoRound THEN NoBets ELSE pending_bets

\* ... and clears the forced shoe
forced_after_stop(old_st, new_st) ==
    IF old_st # NoRound /\ new_st = NoRound THEN <<>> ELSE table_forced_shoes

\* the outcome of the last database transaction of a settlement
db_after(db) == IF db = "none" THEN db_last ELSE db

\* set_ready(sid, {ready, bet}) by a seated player, with the round start it may
\* trigger, when no other handler runs during its `await _emit_table_snapshot`
SetReady(u, ready, bet) ==
    /\ u \in Range(table_players)
    /\ ~(turn_state # NoRound /\ turn_state.status = "active")
    /\ LET ready_players == IF ready THEN table_ready \cup {u} ELSE table_ready \ {u}
           pending_bets ==
               IF ready
               THEN [x \in DOMAIN table_pending_bets \cup {u} |->
                       IF x = u THEN normalize_table_bet(bet) ELSE table_pending_bets[x]]
               ELSE [x \in DOMAIN table_pending_bets \ {u} |-> table_pending_bets[x]]
           starts == Len(table_players) >= 2 /\ Range(table_players) \subseteq ready_players
       IN  IF starts
           THEN \E round_id \in RoundIds \ used_round_ids :
                /\ \E r \in start_table_game(table_players, pending_bets, balance,
                                              table_forced_shoes, round_id) :
                       /\ turn_state' = r[1]
                       /\ balance' = r[2]
                       /\ db_last' = db_after(r[3])
                /\ table_ready' = {}
                /\ table_pending_bets' = NoBets
                /\ table_forced_shoes' = <<>>
                /\ used_round_ids' = used_round_ids \cup {round_id}
                /\ UNCHANGED <<table_players, set_ready_suspended, side_vars>>
           ELSE /\ turn_state' = NoRound
                /\ table_ready' = ready_players
                /\ table_pending_bets' = IF ready_players = {} THEN NoBets ELSE pending_bets
                /\ UNCHANGED <<table_players, balance, table_forced_shoes, db_last,
                               used_round_ids, set_ready_suspended, side_vars>>

\* take_turn_action(sid, {action, action_id}) by any connected user
TakeTurnAction(u, action, action_id) ==
    \E o \in take_turn_action(turn_state, table_players, balance, u, action, action_id) :
        /\ turn_state' = o.st
        /\ balance' = o.bal
        /\ db_last' = db_after(o.db)
        /\ table_pending_bets' = pending_after_stop(turn_state, o.st, table_pending_bets)
        /\ table_forced_shoes' = forced_after_stop(turn_state, o.st)
        /\ UNCHANGED <<table_players, table_ready, used_round_ids, set_ready_suspended,
                       side_vars>>

\* one pass of _process_turn_timeouts() from the timer loop
TimerSweep ==
    \E o \in process_turn_timeouts(turn_state, table_players, balance) :
        /\ turn_state' = o.st
        /\ balance' = o.bal
        /\ db_last' = db_after(o.db)
        /\ table_pending_bets' = pending_after_stop(turn_state, o.st, table_pending_bets)
        /\ table_forced_shoes' = forced_after_stop(turn_state, o.st)
        /\ UNCHANGED <<table_players, table_ready, used_round_ids, set_ready_suspended,
                       side_vars>>

\* the clock reaches the current turn's deadline
Tick ==
    /\ turn_state # NoRound
    /\ turn_state.status = "active"
    /\ turn_state.turn_deadline = "future"
    /\ turn_state' = [turn_state EXCEPT !.turn_deadline = "elapsed"]
    /\ UNCHANGED <<table_players, table_ready, table_pending_bets, balance,
                   table_forced_shoes, db_last, used_round_ids, set_ready_suspended,
                   side_vars>>

\* _clear_user_ready, lobby_service.leave_table and
\* _handle_player_removed_from_turn_state for a seated user_id, as leave_table and
\* _evict_offline_user run them: the possible outcomes; ended_reason is the reason
\* of the table_game_ended event, None when none is emitted
remove_user_from_table(players, ready, pending_bets, st, bal, forced_shoes, user_id) ==
    LET cleared == clear_user_ready(ready, pending_bets, user_id)
        left == RemoveFromSeq(players, user_id)
    IN  { LET stopped == st # NoRound /\ r[1] = NoRound
          IN  [players |-> left,
               ready |-> IF Len(left) = 0 THEN {} ELSE cleared[1],
               pending_bets |-> IF Len(left) = 0 \/ stopped THEN NoBets ELSE cleared[2],
               forced_shoes |-> IF Len(left) = 0 \/ stopped THEN <<>> ELSE forced_shoes,
               st |-> r[1], bal |-> r[2], db |-> r[3],
               ended_reason |-> IF stopped THEN "not_enough_players" ELSE None]
          : r \in handle_player_removed_from_turn_state(st, bal, user_id) }

\* the table after one of those outcomes
TableBecomes(o) ==
    /\ table_players' = o.players
    /\ table_ready' = o.ready
    /\ table_pending_bets' = o.pending_bets
    /\ table_forced_shoes' = o.forced_shoes
    /\ turn_state' = o.st
    /\ balance' = o.bal
    /\ db_last' = db_after(o.db)
    /\ UNCHANGED <<used_round_ids, set_ready_suspended>>

\* leave_table(sid) by a seated player
LeaveTable(u) ==
    /\ u \in Range(table_players)
    /\ \E o \in remove_user_from_table(table_players, table_ready, table_pending_bets,
                                       turn_state, balance, table_forced_shoes, u) :
           TableBecomes(o)
    /\ UNCHANGED side_vars

Next ==
    \/ \E u \in Users, ready \in BOOLEAN, bet \in RequestedBets :
           SetReady(u, ready, bet) /\ UNCHANGED <<timer_sweep, lobby_vars>>
    \/ \E u \in Users, action \in TurnActions, action_id \in SubmittedActionIds :
           TakeTurnAction(u, action, action_id) /\ UNCHANGED <<timer_sweep, lobby_vars>>
    \/ TimerSweep /\ UNCHANGED <<timer_sweep, lobby_vars>>
    \/ Tick /\ UNCHANGED <<timer_sweep, lobby_vars>>
    \/ \E u \in Users : LeaveTable(u) /\ UNCHANGED <<timer_sweep, lobby_vars>>

Spec == Init /\ [][Next]_vars

-----------------------------------------------------------------------------
(* The ready-up cycle with set_ready handlers that interleave: a handler gives up
   the event loop at `await _emit_table_snapshot`, and any other handler or the
   timer may run before it resumes *)

\* set_ready(sid, {ready, bet}) by a seated player, up to its
\* `await _emit_table_snapshot(table_id)`: the request is refused while a round is
\* active, a round that has ended is dropped, the ready set and the pending bets
\* are updated, and the handler is suspended
SetReadyRequest(u, ready, bet) ==
    /\ u \in Range(table_players)
    /\ ~(turn_state # NoRound /\ turn_state.status = "active")
    /\ set_ready_suspended < MaxSuspended
    /\ LET ready_players == IF ready THEN table_ready \cup {u} ELSE table_ready \ {u}
           pending_bets ==
               IF ready
               THEN [x \in DOMAIN table_pending_bets \cup {u} |->
                       IF x = u THEN normalize_table_bet(bet) ELSE table_pending_bets[x]]
               ELSE [x \in DOMAIN table_pending_bets \ {u} |-> table_pending_bets[x]]
       IN  /\ turn_state' = NoRound
           /\ table_ready' = ready_players
           /\ table_pending_bets' = IF ready_players = {} THEN NoBets ELSE pending_bets
    /\ set_ready_suspended' = set_ready_suspended + 1
    /\ UNCHANGED <<table_players, balance, table_forced_shoes, db_last, used_round_ids,
                   side_vars>>

\* a start as soon as one player of a table of two or more is ready
all_players_ready_any(players, ready) == Len(players) >= 2 /\ ready # {}

\* the table is to be started: at least two seated players, all of them ready
all_players_ready(players, ready) == Len(players) >= 2 /\ Range(players) \subseteq ready

\* a suspended set_ready handler resumes: it reads the table and the ready set
\* again and starts the round when every seated player is ready
SetReadyResumes ==
    /\ set_ready_suspended > 0
    /\ set_ready_suspended' = set_ready_suspended - 1
    /\ IF all_players_ready(table_players, table_ready)
       THEN \E round_id \in RoundIds \ used_round_ids :
                /\ \E r \in start_table_game(table_players, table_pending_bets, balance,
                                              table_forced_shoes, round_id) :
                       /\ turn_state' = r[1]
                       /\ balance' = r[2]
                       /\ db_last' = db_after(r[3])
                /\ table_ready' = {}
                /\ table_pending_bets' = NoBets
                /\ table_forced_shoes' = <<>>
                /\ used_round_ids' = used_round_ids \cup {round_id}
                /\ UNCHANGED <<table_players, side_vars>>
       ELSE UNCHANGED <<table_players, table_ready, table_pending_bets, turn_state, balance,
                        table_forced_shoes, db_last, used_round_ids, side_vars>>

\* the requests of the players in turn: stand or hit, with no action_id
NextReady ==
    \/ \E u \in Users, ready \in BOOLEAN, bet \in RequestedBets :
           SetReadyRequest(u, ready, bet) /\ UNCHANGED <<timer_sweep, lobby_vars>>
    \/ SetReadyResumes /\ UNCHANGED <<timer_sweep, lobby_vars>>
    \/ \E u \in Users, action \in {"stand", "hit"} :
           TakeTurnAction(u, action, None) /\ UNCHANGED <<timer_sweep, lobby_vars>>
    \/ TimerSweep /\ UNCHANGED <<timer_sweep, lobby_vars>>
    \/ Tick /\ UNCHANGED <<timer_sweep, lobby_vars>>
    \/ \E u \in Users : LeaveTable(u) /\ UNCHANGED <<timer_sweep, lobby_vars>>

SpecReady == Init /\ [][NextReady]_vars

-----------------------------------------------------------------------------
(* hand_score on its own: every hand of at most MaxHandLen cards, in every order *)

ScoredHands == UNION {[1..n -> Range(RANKS)] : n \in 0..MaxHandLen}

InitScore ==
    /\ scored_hand \in ScoredHands
    /\ scored_total = <<>>
    /\ table_players = <<>>
    /\ table_forced_shoes = <<>>
    /\ table_ready = {}
    /\ table_pending_bets = NoBets
    /\ turn_state = NoRound
    /\ balance = InitialBalance
    /\ db_last = "none"
    /\ used_round_ids = {}
    /\ set_ready_suspended = 0
    /\ user_to_sids = [u \in Users |-> {}]
    /\ reconnect_deadlines = [u \in Users |-> None]
    /\ timer_sweep = NoSweep
    /\ lobby_tables = NoTables
    /\ tables_created = 0
    /\ table_chat_banned = NoBans
    /\ moderation_suspended = NoModeration

\* the call hand_score(scored_hand) returns
ScoreHand ==
    /\ scored_total = <<>>
    /\ scored_total' = <<hand_score(scored_hand)>>
    /\ UNCHANGED <<scored_hand, table_vars, presence_vars>>

NextScore == ScoreHand /\ UNCHANGED <<timer_sweep, lobby_vars>>

SpecScore == InitScore /\ [][NextScore]_vars

-----------------------------------------------------------------------------
(* Presence and reconnection: connect, disconnect, join_table,                *)
(* _process_reconnect_deadlines, _evict_offline_user                          *)

RECONNECT_GRACE_SECONDS == 30
\* LobbyTable.max_players of the table
TableMaxPlayers == 3
\* the id of the one table
TableId == "t1"
\* socket ids a user has at one time
MaxSids == 2
Sids == 1..MaxSids
\* the users whose connections come and go; u3 stays connected
RoamingUsers == {"u1", "u2"}

\* user_id in _user_to_sids
is_online(sids, user_id) == sids[user_id] # {}

\* user_id in _reconnect_deadlines
has_reconnect_deadline(deadlines, user_id) == deadlines[user_id] # None

set_reconnect_deadline(deadlines, user_id) ==
    [deadlines EXCEPT ![user_id] = next_deadline(RECONNECT_GRACE_SECONDS)]

clear_reconnect_deadline(deadlines, user_id) == [deadlines EXCEPT ![user_id] = None]

register_presence(sids, user_id, sid) == [sids EXCEPT ![user_id] = @ \cup {sid}]

unregister_presence(sids, user_id, sid) == [sids EXCEPT ![user_id] = @ \ {sid}]

\* lobby_service.table_ids_for_user(user_id)
table_ids_for_user(players, user_id) ==
    IF user_id \in Range(players) THEN <<TableId>> ELSE <<>>

\* the table the new connection's session is attached to, None for none
restore_sid_table_membership(players, user_id) ==
    LET table_ids == table_ids_for_user(players, user_id)
    IN  IF table_ids # <<>> THEN table_ids[1] ELSE None

\* connect(sid, environ, auth) with a valid token of user_id
connect(sids, deadlines, players, user_id, sid) ==
    [sids |-> register_presence(sids, user_id, sid),
     deadlines |-> clear_reconnect_deadline(deadlines, user_id),
     restored_table_id |-> restore_sid_table_membership(players, user_id)]

\* disconnect(sid) of a registered connection of user_id
disconnect(sids, deadlines, user_id, sid) ==
    LET left == unregister_presence(sids, user_id, sid)
    IN  [sids |-> left,
         deadlines |-> IF ~is_online(left, user_id)
                       THEN set_reconnect_deadline(deadlines, user_id)
                       ELSE deadlines]

\* the sequences that list every member of a set once
Orderings(S) ==
    {order \in [1..Cardinality(S) -> S] : \A i, j \in 1..Cardinality(S) : order[i] = order[j] => i = j}

\* a sweep that takes every elapsed deadline, whether its user is online or not
collect_expired_user_ids_online(deadlines, sids) ==
    Orderings({user_id \in DOMAIN deadlines : deadlines[user_id] = "elapsed"})

\* expired_user_ids of _process_reconnect_deadlines: the users whose deadline is
\* reached and who are not in _user_to_sids, in the order of the dict, which is
\* the order the deadlines were set in and is not recorded here: any order
collect_expired_user_ids(deadlines, sids) ==
    Orderings({user_id \in DOMAIN deadlines :
                  deadlines[user_id] = "elapsed" /\ ~is_online(sids, user_id)})

\* an eviction that takes the user out of the round and leaves the seat
evict_offline_user_keeps_seat(players, ready, pending_bets, st, bal, forced_shoes, user_id) ==
    { [o EXCEPT !.players = players]
      : o \in remove_user_from_table(players, ready, pending_bets, st, bal, forced_shoes,
                                     user_id) }

\* _evict_offline_user(user_id): the possible outcomes, with the events emitted
\* to the room of the table
evict_offline_user(players, ready, pending_bets, st, bal, forced_shoes, user_id) ==
    IF table_ids_for_user(players, user_id) = <<>>
    THEN {[players |-> players, ready |-> ready, pending_bets |-> pending_bets,
           forced_shoes |-> forced_shoes, st |-> st, bal |-> bal, db |-> "none",
           ended_reason |-> None, emits |-> <<>>]}
    ELSE { [players |-> o.players, ready |-> o.ready, pending_bets |-> o.pending_bets,
            forced_shoes |-> o.forced_shoes, st |-> o.st, bal |-> o.bal, db |-> o.db,
            ended_reason |-> o.ended_reason,
            emits |-> (IF o.ended_reason # None THEN <<"table_game_ended">> ELSE <<>>)
                      \o <<"player_auto_removed">>]
           : o \in remove_user_from_table(players, ready, pending_bets, st, bal,
                                          forced_shoes, user_id) }

Connect(u) ==
    /\ \E sid \in Sids \ user_to_sids[u] :
           /\ \A other \in Sids \ user_to_sids[u] : sid <= other
           /\ LET c == connect(user_to_sids, reconnect_deadlines, table_players, u, sid)
              IN  /\ user_to_sids' = c.sids
                  /\ reconnect_deadlines' = c.deadlines
    /\ UNCHANGED <<table_vars, score_vars>>

Disconnect(u, sid) ==
    /\ sid \in user_to_sids[u]
    /\ LET d == disconnect(user_to_sids, reconnect_deadlines, u, sid)
       IN  /\ user_to_sids' = d.sids
           /\ reconnect_deadlines' = d.deadlines
    /\ UNCHANGED <<table_vars, score_vars>>

\* the clock reaches the reconnect deadline of a user
GraceElapses(u) ==
    /\ reconnect_deadlines[u] = "future"
    /\ reconnect_deadlines' = [reconnect_deadlines EXCEPT ![u] = "elapsed"]
    /\ UNCHANGED <<table_vars, score_vars, user_to_sids>>

\* join_table(sid, {table_id}) by a connected user, when it is not refused: a user
\* who is not seated takes a seat (refused while a round state is registered or
\* the table is full), and the user's ready marks are cleared
JoinTable(u) ==
    /\ is_online(user_to_sids, u)
    /\ table_players # <<>>
    /\ u \notin Range(table_players) => turn_state = NoRound /\ Len(table_players) < TableMaxPlayers
    /\ LET cleared == clear_user_ready(table_ready, table_pending_bets, u)
       IN  /\ table_players' = IF u \in Range(table_players) THEN table_players
                               ELSE Append(table_players, u)
           /\ table_ready' = cleared[1]
           /\ table_pending_bets' = cleared[2]
    /\ UNCHANGED <<turn_state, balance, table_forced_shoes, db_last, used_round_ids,
                   set_ready_suspended, side_vars>>

\* the loop of _process_reconnect_deadlines over expired_user_ids: the possible
\* outcomes
RECURSIVE evict_loop(_, _)
evict_loop(user_ids, t) ==
    IF user_ids = <<>> THEN {t}
    ELSE UNION { evict_loop(Tail(user_ids),
                            [players |-> o.players, ready |-> o.ready,
                             pending_bets |-> o.pending_bets, forced_shoes |-> o.forced_shoes,
                             st |-> o.st, bal |-> o.bal,
                             db |-> IF o.db = "none" THEN t.db ELSE o.db,
                             deadlines |-> clear_reconnect_deadline(t.deadlines, user_ids[1]),
                             emits |-> t.emits \o o.emits])
                 : o \in evict_offline_user(t.players, t.ready, t.pending_bets, t.st, t.bal,
                                            t.forced_shoes, user_ids[1]) }

\* the possible outcomes of _process_reconnect_deadlines()
process_reconnect_deadlines(deadlines, sids, players, ready, pending_bets, st, bal, forced_shoes) ==
    UNION { evict_loop(user_ids,
                       [players |-> players, ready |-> ready, pending_bets |-> pending_bets,
                        forced_shoes |-> forced_shoes, st |-> st, bal |-> bal, db |-> "none",
                        deadlines |-> deadlines, emits |-> <<>>])
            : user_ids \in collect_expired_user_ids(deadlines, sids) }

\* one pass of _process_reconnect_deadlines() from the timer loop that finds a
\* user to evict
ReconnectSweep ==
    /\ \E user_id \in Users :
           reconnect_deadlines[user_id] = "elapsed" /\ ~is_online(user_to_sids, user_id)
    /\ \E o \in process_reconnect_deadlines(reconnect_deadlines, user_to_sids, table_players,
                                            table_ready, table_pending_bets, turn_state,
                                            balance, table_forced_shoes) :
           /\ TableBecomes(o)
           /\ reconnect_deadlines' = o.deadlines
    /\ UNCHANGED <<user_to_sids, score_vars>>

\* the table of three seats with its draw order installed, every seated user
\* connected once
InitPresence ==
    /\ table_players = <<"u1", "u2", "u3">>
    /\ table_forced_shoes = set_forced_shoe_draw_order(ForcedDrawOrder)
    /\ table_ready = {}
    /\ table_pending_bets = NoBets
    /\ turn_state = NoRound
    /\ balance = InitialBalance
    /\ db_last = "none"
    /\ used_round_ids = {}
    /\ set_ready_suspended = 0
    /\ scored_hand = <<>>
    /\ scored_total = <<>>
    /\ user_to_sids = [u \in Users |-> {1}]
    /\ reconnect_deadlines = [u \in Users |-> None]
    /\ timer_sweep = NoSweep
    /\ lobby_tables = NoTables
    /\ tables_created = 0
    /\ table_chat_banned = NoBans
    /\ moderation_suspended = NoModeration

\* the table with its connections: the requests come from connected users, and
\* the turns are played by the timer
NextPresence ==
    \/ \E u \in RoamingUsers : Connect(u) /\ UNCHANGED <<timer_sweep, lobby_vars>>
    \/ \E u \in RoamingUsers, sid \in Sids : Disconnect(u, sid) /\ UNCHANGED <<timer_sweep, lobby_vars>>
    \/ \E u \in Users : GraceElapses(u) /\ UNCHANGED <<timer_sweep, lobby_vars>>
    \/ \E u \in Users : JoinTable(u) /\ UNCHANGED <<timer_sweep, lobby_vars>>
    \/ ReconnectSweep /\ UNCHANGED <<timer_sweep, lobby_vars>>
    \/ \E u \in Users, bet \in RequestedBets :
           is_online(user_to_sids, u) /\ SetReady(u, TRUE, bet) /\ UNCHANGED <<timer_sweep, lobby_vars>>
    \/ \E u \in Users :
           is_online(user_to_sids, u) /\ LeaveTable(u) /\ UNCHANGED <<timer_sweep, lobby_vars>>
    \/ TimerSweep /\ UNCHANGED <<timer_sweep, lobby_vars>>
    \/ Tick /\ UNCHANGED <<timer_sweep, lobby_vars>>

SpecPresence == InitPresence /\ [][NextPresence]_vars

-----------------------------------------------------------------------------
(* Admin commands: _execute_admin_command *)

MAX_ADMIN_COMMAND_LENGTH == 500

\* a command text is a sequence of pieces: a blank, a double quote, a slash, or a
\* word that holds none of them
Blank == " "
Quote == "\""
Slash == "/"
\* a word of 501 characters
LongWord == "reason"

\* len() of a piece
piece_length(piece) ==
    CASE piece = LongWord -> MAX_ADMIN_COMMAND_LENGTH + 1
      [] piece \in {Blank, Quote, Slash} -> 1
      [] piece \in {"u2", "t1", "t9"} -> 2
      [] piece \in {"kick", "KICK"} -> 4
      [] piece \in {"dance", "admin"} -> 5
      [] piece = "set_role" -> 8
      [] piece = "end_round" -> 9
      [] piece = "close_table" -> 11

\* len(text)
text_length(text) == SumSeq([i \in 1..Len(text) |-> piece_length(text[i])])

\* str.lstrip(chars) and str.rstrip(chars)
RECURSIVE lstrip(_, _)
lstrip(text, chars) ==
    IF text # <<>> /\ Head(text) \in chars THEN lstrip(Tail(text), chars) ELSE text

RECURSIVE rstrip(_, _)
rstrip(text, chars) ==
    IF text # <<>> /\ text[Len(text)] \in chars
    THEN rstrip(SubSeq(text, 1, Len(text) - 1), chars) ELSE text

\* str.strip()
strip(text) == rstrip(lstrip(text, {Blank}), {Blank})

\* str.lower() of a word
lower(word) == IF word = "KICK" THEN "kick" ELSE word

\* the scan of shlex.split: blanks outside quotes end a token, a quote opens or
\* closes a quoted stretch and is dropped, and a quote left open is a ValueError
RECURSIVE shlex_scan(_, _, _, _, _)
shlex_scan(text, token, in_token, in_quote, tokens) ==
    IF text = <<>>
    THEN IF in_quote THEN [error |-> TRUE, tokens |-> <<>>]
         ELSE [error |-> FALSE, tokens |-> IF in_token THEN Append(tokens, token) ELSE tokens]
    ELSE IF Head(text) = Quote
    THEN shlex_scan(Tail(text), token, TRUE, ~in_quote, tokens)
    ELSE IF Head(text) = Blank /\ ~in_quote
    THEN shlex_scan(Tail(text), <<>>, FALSE, FALSE,
                    IF in_token THEN Append(tokens, token) ELSE tokens)
    ELSE shlex_scan(Tail(text), Append(token, Head(text)), TRUE, in_quote, tokens)

\* shlex.split(text): the tokens, each a sequence of pieces
shlex_split(text) == shlex_scan(text, <<>>, FALSE, FALSE, <<>>)

\* a token of one word as that word, any other token as the empty string
as_word(token) == IF Len(token) = 1 THEN token[1] ELSE ""

aliases == [lock |-> "lock_table", unlock |-> "unlock_table", end_round |-> "end_table_round"]

command_min_role ==
    [kick |-> "mod", mute |-> "mod", unmute |-> "mod", ban |-> "mod", unban |-> "mod",
     spectate |-> "mod", lock_table |-> "admin", unlock_table |-> "admin",
     end_table_round |-> "admin", close_table |-> "admin", add_balance |-> "admin",
     remove_balance |-> "admin", set_balance |-> "super", set_role |-> "super"]

ROLE_LEVELS == [player |-> 0, mod |-> 1, admin |-> 2, super |-> 3]

has_role_at_least(role, minimum_role) == ROLE_LEVELS[role] >= ROLE_LEVELS[minimum_role]

\* lobby_service.get_table(table_id) finds a table
table_exists(players, table_id) == table_id = TableId /\ Len(players) > 0

\* _resolve_table_for_target_user(target_user_id, explicit_table_id)
resolve_table_for_target_user(players, target_user_id, explicit_table_id) ==
    IF explicit_table_id # "" THEN explicit_table_id
    ELSE IF table_ids_for_user(players, target_user_id) # <<>>
    THEN table_ids_for_user(players, target_user_id)[1] ELSE ""

\* the row write_audit_log adds
audit_entry(identity, command_text, status, message, target_user_id, target_table_id) ==
    [actor_user_id |-> identity.user_id, actor_role |-> identity.role,
     command_text |-> command_text, status |-> status, message |-> message,
     target_user_id |-> target_user_id, target_table_id |-> target_table_id]

\* what a call of the dispatcher leaves behind: its reply, the audit rows it wrote,
\* the table, and the TableTurnState object it took out of _table_turn_states
\* (NoRound when it took none out)
admin_outcome(ok, message, audit, players, ready, pending_bets, forced_shoes, st, bal, db, popped) ==
    [ok |-> ok, message |-> message, audit |-> audit, players |-> players, ready |-> ready,
     pending_bets |-> pending_bets, forced_shoes |-> forced_shoes, st |-> st, bal |-> bal,
     db |-> db, popped |-> popped]

\* the possible results of _remove_user_from_table_for_moderation(table_id, user_id)
remove_user_from_table_for_moderation(players, ready, pending_bets, st, bal, forced_shoes, table_id, user_id) ==
    IF ~table_exists(players, table_id) \/ user_id \notin Range(players)
    THEN {[players |-> players, ready |-> ready, pending_bets |-> pending_bets,
           forced_shoes |-> forced_shoes, st |-> st, bal |-> bal, db |-> "none",
           ended_reason |-> None]}
    ELSE remove_user_from_table(players, ready, pending_bets, st, bal, forced_shoes, user_id)

\* the commands the dispatcher runs here, after the role check: kick,
\* end_table_round and close_table; a ValueError ends the command with status
\* "error", and one audit row is written at the end either way
run_admin_command(identity, normalized_command, command_name, args, players, ready, pending_bets, st, bal, forced_shoes) ==
    LET arg(i) == IF Len(args) >= i THEN as_word(args[i]) ELSE ""
        failed(message, target_table_id) ==
            {admin_outcome(FALSE, message,
                           <<audit_entry(identity, normalized_command, "error", message,
                                         None, target_table_id)>>,
                           players, ready, pending_bets, forced_shoes, st, bal, "none", NoRound)}
    IN  CASE command_name = "kick" ->
               IF Len(args) < 1 THEN failed("usage: /kick <user_id_or_username> [table_id]", None)
               ELSE IF arg(1) \notin Users THEN failed("target user not found", None)
               ELSE LET table_id == resolve_table_for_target_user(players, arg(1), arg(2))
                    IN  IF table_id = "" \/ ~table_exists(players, table_id)
                        THEN failed("table not found for target user", None)
                        ELSE { admin_outcome(TRUE, "kicked {username} from table {table_id}",
                                   <<audit_entry(identity, normalized_command, "success",
                                                 "kicked {username} from table {table_id}",
                                                 arg(1), table_id)>>,
                                   o.players, o.ready, o.pending_bets, o.forced_shoes,
                                   o.st, o.bal, o.db,
                                   IF o.ended_reason # None
                                   THEN removed_from_turn_cycle(st, arg(1)) ELSE NoRound)
                               : o \in remove_user_from_table_for_moderation(
                                          players, ready, pending_bets, st, bal,
                                          forced_shoes, table_id, arg(1)) }
          [] command_name = "end_table_round" ->
               IF Len(args) < 1 THEN failed("usage: /end_round <table_id>", None)
               ELSE IF arg(1) = "" \/ ~table_exists(players, arg(1))
               THEN failed("table not found", None)
               ELSE {admin_outcome(TRUE, "ended active round for table {table_id}",
                         <<audit_entry(identity, normalized_command, "success",
                                       "ended active round for table {table_id}",
                                       None, arg(1))>>,
                         players, ready,
                         IF st # NoRound THEN NoBets ELSE pending_bets,
                         IF st # NoRound THEN <<>> ELSE forced_shoes,
                         NoRound, bal, "none", st)}
          [] command_name = "close_table" ->
               IF Len(args) < 1 THEN failed("usage: /close_table <table_id>", None)
               ELSE IF ~table_exists(players, arg(1)) THEN failed("table not found", arg(1))
               ELSE {admin_outcome(TRUE, "closed table {table_id}",
                         <<audit_entry(identity, normalized_command, "success",
                                       "closed table {table_id}", None, arg(1))>>,
                         <<>>, ready, pending_bets, forced_shoes, st, bal, "none", NoRound)}

\* the possible results of _execute_admin_command(identity, command_text)
execute_admin_command(identity, command_text, players, ready, pending_bets, st, bal, forced_shoes) ==
    LET normalized_command == strip(command_text)
        returns(message, audit) ==
            {admin_outcome(FALSE, message, audit, players, ready, pending_bets,
                           forced_shoes, st, bal, "none", NoRound)}
        split == shlex_split(normalized_command)
        named == lower(as_word(strip(lstrip(split.tokens[1], {Slash}))))
        command_name == IF named \in DOMAIN aliases THEN aliases[named] ELSE named
    IN  IF normalized_command = <<>> THEN returns("command is required", <<>>)
        ELSE IF text_length(normalized_command) > MAX_ADMIN_COMMAND_LENGTH
        THEN returns("command is too long", <<>>)
        ELSE IF split.error THEN returns("invalid command syntax", <<>>)
        ELSE IF Len(split.tokens) = 0 THEN returns("command is required", <<>>)
        ELSE IF command_name \notin DOMAIN command_min_role
        THEN returns("unknown admin command",
                     <<audit_entry(identity, normalized_command, "error",
                                   "unknown admin command", None, None)>>)
        ELSE IF ~has_role_at_least(identity.role, command_min_role[command_name])
        THEN returns("requires {minimum_role} role",
                     <<audit_entry(identity, normalized_command, "error",
                                   "requires {minimum_role} role", None, None)>>)
        ELSE run_admin_command(identity, normalized_command, command_name,
                               Tail(split.tokens), players, ready, pending_bets,
                               st, bal, forced_shoes)

\* the connections that pass the role check of the admin_command handler
AdminIdentities == {[user_id |-> "a1", role |-> "admin"], [user_id |-> "m1", role |-> "mod"]}

\* the command texts sent
AdminCommandTexts ==
    { <<>>,
      <<Blank, Blank>>,
      <<Quote, Quote>>,
      <<Slash, "kick", Blank, Quote, "u2">>,
      <<Slash, "kick", Blank, "u2", Blank, "t1", Blank, LongWord>>,
      <<Slash, "dance">>,
      <<Slash, "KICK", Blank, "u2">>,
      <<Slash, "kick", Blank, "u2", Blank, "t9">>,
      <<Slash, "end_round", Blank, Quote, "t1", Quote>>,
      <<Slash, "end_round">>,
      <<Slash, "end_round", Blank, "t9">>,
      <<"close_table", Blank, "t1">>,
      <<Slash, "set_role", Blank, "u2", Blank, "admin">> }

-----------------------------------------------------------------------------
(* A pass of the turn timer that gives up the event loop. _process_turn_timeouts
   takes list(_table_turn_states.items()) when it starts and awaits the emits of
   every table it stops or stands for, so it reaches the table holding the
   TableTurnState object that was registered when it started, after any handler
   that ran during the emits of the tables before this one *)

\* the TableTurnState object a suspended pass holds: the registered one, with all
\* that happened to it since, or the one that has left _table_turn_states
held_state(sweep, st) == IF sweep.registered THEN st ELSE sweep.orphan

\* the timer loop, take_turn_action or sync_state starts a pass while a round is
\* registered: `now` is read and the list is taken
TimerSweepCaptures ==
    /\ timer_sweep.pc = "idle"
    /\ turn_state # NoRound
    /\ timer_sweep' = [pc |-> "suspended", registered |-> TRUE, orphan |-> NoRound,
                       due |-> turn_state.turn_deadline = "elapsed"]
    /\ UNCHANGED <<table_vars, score_vars, presence_vars, lobby_vars>>

\* what a suspended pass holds after another handler has run: popped is the
\* object that handler takes out of _table_turn_states if it takes one out; a
\* deadline renewed since the pass read `now` lies after `now`
SweepFollows(popped) ==
    /\ timer_sweep' =
           IF timer_sweep.pc = "idle" \/ ~timer_sweep.registered THEN timer_sweep
           ELSE IF turn_state' = NoRound
           THEN [timer_sweep EXCEPT !.registered = FALSE, !.orphan = popped,
                                    !.due = @ /\ popped.turn_deadline = "elapsed"]
           ELSE [timer_sweep EXCEPT !.due = @ /\ turn_state'.turn_deadline = "elapsed"]
    /\ UNCHANGED lobby_vars

\* a pass that stops the game of a table left with too few players and never
\* stands for anybody
sweep_held_state_idle(held, due, players, bal) ==
    IF Len(players) < 2 \/ Len(held.players) < 2
    THEN {[stop |-> TRUE, st |-> held, bal |-> bal, db |-> "none", emits |-> <<>>]}
    ELSE {[stop |-> FALSE, st |-> held, bal |-> bal, db |-> "none", emits |-> <<>>]}

\* the body of the for loop of _process_turn_timeouts on the object it holds:
\* the possible results; stop says that _stop_table_game(table_id) is called
sweep_held_state(held, due, players, bal) ==
    IF Len(players) < 2 \/ Len(held.players) < 2
    THEN {[stop |-> TRUE, st |-> held, bal |-> bal, db |-> "none", emits |-> <<>>]}
    ELSE IF held.status # "active" \/ held.phase # "player_turns" \/ ~due
    THEN {[stop |-> FALSE, st |-> held, bal |-> bal, db |-> "none", emits |-> <<>>]}
    ELSE { [stop |-> FALSE, st |-> r.st, bal |-> r.bal, db |-> r.db, emits |-> r.emits]
           : r \in timeout_loop(held, bal, "none", 0, <<>>) }

\* the suspended pass reaches the table; what is left of it is the user of its
\* first turn_timeout event
TimerSweepReaches ==
    /\ timer_sweep.pc = "suspended"
    /\ LET held == held_state(timer_sweep, turn_state)
       IN  \E r \in sweep_held_state(held, timer_sweep.due, table_players, balance) :
               /\ turn_state' = IF r.stop THEN NoRound
                                ELSE IF timer_sweep.registered THEN r.st ELSE turn_state
               /\ table_pending_bets' =
                      IF r.stop /\ turn_state # NoRound THEN NoBets ELSE table_pending_bets
               /\ table_forced_shoes' =
                      IF r.stop /\ turn_state # NoRound THEN <<>> ELSE table_forced_shoes
               /\ balance' = r.bal
               /\ db_last' = db_after(r.db)
               /\ timer_sweep' = [pc |-> "idle",
                                  timed_out_user |-> IF r.emits = <<>> THEN None
                                                     ELSE current_turn_user_id(held)]
    /\ UNCHANGED <<table_players, table_ready, used_round_ids, set_ready_suspended,
                   score_vars, presence_vars, lobby_vars>>

\* admin_command(sid, {command}) by a moderator or an administrator
AdminCommand(identity, command_text) ==
    /\ \E o \in execute_admin_command(identity, command_text, table_players, table_ready,
                                      table_pending_bets, turn_state, balance,
                                      table_forced_shoes) :
           /\ TableBecomes(o)
           /\ SweepFollows(o.popped)
    /\ UNCHANGED <<score_vars, presence_vars>>

\* a take_turn_action handler goes on after its `await _process_turn_timeouts()`
\* and its `await sio.get_session(sid)`, which other handlers have overtaken: it
\* reads _table_turn_states, checks and applies with no await in between
TakeTurnActionResumes(u, action, action_id) ==
    /\ \E o \in turn_action_after_sweep(
                    [st |-> turn_state, bal |-> balance, db |-> "none", emits |-> <<>>],
                    table_players, u, action, action_id) :
           /\ turn_state' = o.st
           /\ balance' = o.bal
           /\ db_last' = db_after(o.db)
    /\ UNCHANGED <<table_players, table_ready, table_pending_bets, table_forced_shoes,
                   used_round_ids, set_ready_suspended, score_vars, presence_vars>>

\* the table of three seats with its draw order installed
InitSweep == InitPresence

\* the table with a pass of the timer that other handlers overtake
NextSweep ==
    \/ \E u \in Users, bet \in RequestedBets :
           SetReady(u, TRUE, bet) /\ SweepFollows(turn_state)
    \/ \E u \in Users, action \in {"stand", "hit"} :
           TakeTurnAction(u, action, None) /\ SweepFollows(turn_state)
    \/ \E u \in Users, action \in {"stand", "hit"} :
           TakeTurnActionResumes(u, action, None) /\ SweepFollows(turn_state)
    \/ Tick /\ SweepFollows(turn_state)
    \/ \E u \in Users : LeaveTable(u) /\ SweepFollows(removed_from_turn_cycle(turn_state, u))
    \/ TimerSweepCaptures
    \/ TimerSweepReaches
    \/ \E identity \in AdminIdentities, command_text \in AdminCommandTexts :
           AdminCommand(identity, command_text)

SpecSweep == InitSweep /\ [][NextSweep]_vars

-----------------------------------------------------------------------------
(* Properties *)

InRound == turn_state # NoRound
RoundSettled == InRound /\ turn_state.phase = "settled"

\* this step runs the settlement of the round
Settling ==
    /\ ~RoundSettled
    /\ turn_state' # NoRound
    /\ turn_state'.phase = "settled"

\* the sum of the payouts of a settled player's hands
HandsPayout(ps) == SumSeq([i \in 1..Len(ps.hands) |-> ps.hands[i].payout[1]])

C2_SettledOnce ==
    /\ [](RoundSettled =>
            \A reason \in {"all_player_hands_resolved", "player_removed", "immediate_settle"} :
                settle_table_round(turn_state, balance, reason)
                    = {<<turn_state, balance, "none">>})
    /\ [][/\ balance' # balance => Settling
          /\ RoundSettled =>
                /\ balance' = balance
                /\ \/ turn_state' = NoRound
                   \/ /\ turn_state'.phase = "settled"
                      /\ turn_state'.round_id = turn_state.round_id
                      /\ \A u \in DOMAIN turn_state'.player_states :
                             turn_state'.player_states[u] = turn_state.player_states[u]]_vars

\* a settled round that has paid a non-zero total and from which a player has then been removed
C2_Witness ==
    /\ RoundSettled
    /\ db_last = "commit"
    /\ balance # InitialBalance
    /\ turn_state.action_log # <<>>
    /\ turn_state.action_log[Len(turn_state.action_log)].action = "player_left_turn_cycle"

C4_SeenActionIdIsNoOpSuccess ==
    InRound =>
        \A u \in Users, action \in TurnActions, action_id \in SubmittedActionIds \ {None} :
            \A o1 \in take_turn_action(turn_state, table_players, balance,
                                       u, action, action_id) :
                (o1.ok /\ ~o1.duplicate) =>
                    \A o2 \in take_turn_action(o1.st, table_players, o1.bal,
                                               u, action, action_id) :
                        /\ o2.ok
                        /\ o2.st = o1.st

\* C5: whenever _apply_table_action returns an error the round state and the
\* balances are what they were; and it returns an error when the round is not
\* active in phase player_turns, when the caller is not the current-turn player,
\* when there is no playable active hand, and when the action is not in the
\* legality set.
C5_ErrorLeavesStateUnchanged ==
    InRound =>
        \A u \in Users, action \in RequestedActions, timed_out \in BOOLEAN :
            \A r \in apply_table_action(turn_state, balance, u, action, timed_out) :
                /\ r.error # None =>
                       /\ r.st = turn_state
                       /\ r.bal = balance
                       /\ ~r.round_finished
                /\ ( \/ turn_state.status # "active"
                     \/ turn_state.phase # "player_turns"
                     \/ u # current_turn_user_id(turn_state)
                     \/ ~has_current_hand(turn_state)
                     \/ ~hand_is_playable(current_turn_hand(turn_state))
                     \/ action \notin Range(available_actions_for_current_turn(turn_state)) )
                   => r.error # None

\* the current player, one accepted action into the turn, asks for an action that
\* is not in the legality set and is refused
C5_Witness ==
    /\ InRound
    /\ turn_state.status = "active"
    /\ has_current_hand(turn_state)
    /\ Len(current_turn_hand(turn_state).cards) = 3
    /\ \A r \in apply_table_action(turn_state, balance, current_turn_user_id(turn_state),
                                   "double_down", FALSE) :
           r.error = "action not allowed" /\ r.st = turn_state

\* C6: a rejected take_turn_action request mutates no table state, the processed
\* action-ids included, and broadcasts nothing: what it leaves behind is what the
\* timeout sweep at the head of the handler left.
C6_RejectedRequestMutatesNothing ==
    \A u \in Users, action \in RequestedActions, action_id \in RequestedActionIds :
        \A sw \in process_turn_timeouts(turn_state, table_players, balance) :
            \A o \in turn_action_after_sweep(sw, table_players, u, action, action_id) :
                ~o.ok =>
                    /\ o.st = sw.st
                    /\ o.bal = sw.bal
                    /\ o.emits = sw.emits

\* this step keeps the round registered
SameRound ==
    /\ InRound
    /\ turn_state' # NoRound
    /\ turn_state'.round_id = turn_state.round_id

\* the players of the round before and after the step
StayingPlayers == DOMAIN turn_state.player_states \cap DOMAIN turn_state'.player_states

\* every hand of the player is behind the active hand index
PlayerDone(ps) == ps.active_hand_index >= Len(ps.hands)

NoPlayerRemoved(st) ==
    \A i \in 1..Len(st.action_log) : st.action_log[i].action # "player_left_turn_cycle"

\* the hands keep their places, or one hand is replaced by the two hands of its split
HandsKeepPlaces(old, new) ==
    \/ /\ Len(new.hands) = Len(old.hands)
       /\ \A j \in 1..Len(old.hands) :
              SubSeq(new.hands[j].cards, 1, Len(old.hands[j].cards)) = old.hands[j].cards
    \/ /\ Len(new.hands) = Len(old.hands) + 1
       /\ LET at == old.active_hand_index + 1
          IN  /\ at <= Len(old.hands)
              /\ \A j \in 1..(at - 1) : new.hands[j] = old.hands[j]
              /\ new.hands[at].cards[1] = old.hands[at].cards[1]
              /\ new.hands[at + 1].cards[1] = old.hands[at].cards[2]
              /\ new.hands[at].is_split_hand /\ new.hands[at + 1].is_split_hand
              /\ \A j \in (at + 1)..Len(old.hands) : new.hands[j + 1].cards = old.hands[j].cards

ExtraWager(ps, hand, action) ==
    IF action = "insurance" THEN insurance_bet_amount(ps) ELSE hand.bet

\* C8: in every round state committed_bet <= bankroll_at_start for every player;
\* double_down, split and insurance are accepted only when committed_bet plus the
\* extra wager stays within bankroll_at_start, an accepted one commits exactly that
\* extra wager, and one that would exceed the bankroll is refused with the state
\* untouched.
C8_CommittedWithinBankroll ==
    InRound =>
        /\ \A u \in DOMAIN turn_state.player_states :
               turn_state.player_states[u].committed_bet
                   <= turn_state.player_states[u].bankroll_at_start
        /\ (turn_state.status = "active" /\ has_current_hand(turn_state)) =>
               LET u == current_turn_user_id(turn_state)
                   ps == current_turn_player_state(turn_state)
                   hand == current_turn_hand(turn_state)
               IN  \A action \in {"double_down", "split", "insurance"} :
                       \A r \in apply_table_action(turn_state, balance, u, action, FALSE) :
                           LET total == ps.committed_bet + ExtraWager(ps, hand, action)
                           IN  /\ r.error = None =>
                                      /\ total <= ps.bankroll_at_start
                                      /\ r.st.player_states[u].committed_bet = total
                               /\ total > ps.bankroll_at_start =>
                                      /\ r.error = "action not allowed"
                                      /\ r.st = turn_state

\* the current player cannot cover a double down and is refused, after another
\* player has committed a split and an insurance wager on top of the initial bet
C8_Witness ==
    /\ InRound
    /\ turn_state.status = "active"
    /\ has_current_hand(turn_state)
    /\ Len(current_turn_hand(turn_state).cards) = 2
    /\ current_turn_player_state(turn_state).committed_bet + current_turn_hand(turn_state).bet
           > current_turn_player_state(turn_state).bankroll_at_start
    /\ \E u \in DOMAIN turn_state.player_states :
           LET ps == turn_state.player_states[u]
           IN  /\ Len(ps.hands) = 2
               /\ ps.insurance_bet > 0
               /\ ps.committed_bet = 2 * ps.base_bet + ps.insurance_bet

\* every hand of every player of the round
HandsOf(st) ==
    UNION { {st.player_states[u].hands[i] : i \in 1..Len(st.player_states[u].hands)}
            : u \in DOMAIN st.player_states }

\* C9 as stated: a hand's result is set if and only if its status is other than
\* active (stood, bust, surrendered, resolved, or the blackjack mark of the deal).
C9_ResultIffNotActive ==
    InRound =>
        \A hand \in HandsOf(turn_state) :
            hand.result # None
                <=> hand.status \in {"stood", "bust", "surrendered", "resolved", "blackjack"}

\* C9, amended: a hand's result is set if and only if its status is bust,
\* surrendered or resolved; an active, stood or blackjack-marked hand has no result
\* until settlement resolves it, and once the round is settled every hand is
\* resolved with a result and a payout.
C9_ResultIffBustSurrenderedResolved ==
    InRound =>
        /\ \A hand \in HandsOf(turn_state) :
               /\ hand.result # None <=> hand.status \in {"bust", "surrendered", "resolved"}
               /\ hand.status \in {"active", "stood", "blackjack", "bust", "surrendered",
                                   "resolved"}
               /\ hand.status = "bust" => hand.result = "bust"
               /\ hand.status = "surrendered" => hand.result = "surrender"
        /\ RoundSettled =>
               \A hand \in HandsOf(turn_state) :
                   hand.status = "resolved" /\ hand.payout # <<>>

\* a round in its player turns with a stood hand and a blackjack-marked hand that
\* have no result, next to a bust hand that has one
C9_Witness ==
    /\ InRound
    /\ turn_state.phase = "player_turns"
    /\ \E hand \in HandsOf(turn_state) : hand.status = "stood" /\ hand.result = None
    /\ \E hand \in HandsOf(turn_state) : hand.status = "blackjack" /\ hand.result = None
    /\ \E hand \in HandsOf(turn_state) : hand.status = "bust" /\ hand.result = "bust"

\* the legality set of the current hand, but for insurance, as C10 states it
StatedLegality(st, ps, hand) ==
    {"hit", "stand"}
    \cup (IF /\ Len(hand.cards) = 2
             /\ ~hand.doubled_down
             /\ ps.committed_bet + hand.bet <= ps.bankroll_at_start
          THEN {"double_down"} ELSE {})
    \cup (IF /\ Len(hand.cards) = 2
             /\ hand.cards[1] = hand.cards[2]
             /\ Len(ps.hands) < 2
             /\ ps.committed_bet + hand.bet <= ps.bankroll_at_start
          THEN {"split"} ELSE {})
    \cup (IF Len(hand.cards) = 2 /\ ~hand.is_split_hand /\ ~hand.doubled_down
          THEN {"surrender"} ELSE {})

\* insurance as C10 states it
StatedInsurance(st, ps, hand) ==
    /\ st.dealer_cards[1] = "A"
    /\ st.dealer_hidden
    /\ ~ps.insurance_decided
    /\ ps.active_hand_index = 0
    /\ ~hand.is_split_hand
    /\ Len(hand.cards) = 2

HasPlayableCurrentHand(st) ==
    /\ st # NoRound
    /\ st.status = "active"
    /\ st.phase = "player_turns"
    /\ has_current_hand(st)
    /\ hand_is_playable(current_turn_hand(st))

\* C10 as stated: for a playable current hand the legality set is hit, stand, and
\* double_down, split, surrender under the stated conditions, and insurance iff
\* the dealer shows an Ace, the hole card is hidden, the player has not decided
\* and is on the first un-split hand with two cards.
C10_LegalitySetAsStated ==
    HasPlayableCurrentHand(turn_state) =>
        LET ps == current_turn_player_state(turn_state)
            hand == current_turn_hand(turn_state)
        IN  Range(available_actions_for_current_turn(turn_state))
                = StatedLegality(turn_state, ps, hand)
                  \cup (IF StatedInsurance(turn_state, ps, hand) THEN {"insurance"} ELSE {})

\* C10, amended: as stated, with insurance legal only if in addition the insurance
\* wager (half the base bet) is positive and committed_bet plus that wager stays
\* within bankroll_at_start; and _apply_table_action accepts exactly the actions
\* of the legality set.
C10_LegalitySetWithCoveredInsurance ==
    HasPlayableCurrentHand(turn_state) =>
        LET ps == current_turn_player_state(turn_state)
            hand == current_turn_hand(turn_state)
            legal == StatedLegality(turn_state, ps, hand)
                     \cup (IF /\ StatedInsurance(turn_state, ps, hand)
                              /\ round_half(ps.base_bet) > 0
                              /\ ps.committed_bet + round_half(ps.base_bet)
                                     <= ps.bankroll_at_start
                           THEN {"insurance"} ELSE {})
        IN  /\ Range(available_actions_for_current_turn(turn_state)) = legal
            /\ \A action \in RequestedActions :
                   \A r \in apply_table_action(turn_state, balance,
                                               current_turn_user_id(turn_state), action, FALSE) :
                       r.error = None <=> action \in legal

\* the dealer shows an Ace with the hole card hidden; the current player, whose
\* balance covers the bet, is undecided on insurance and on a first two-card hand,
\* cannot cover the insurance wager and is offered hit, stand and surrender only,
\* after another player took insurance
C10_Witness ==
    /\ HasPlayableCurrentHand(turn_state)
    /\ StatedInsurance(turn_state, current_turn_player_state(turn_state),
                       current_turn_hand(turn_state))
    /\ balance[current_turn_user_id(turn_state)]
           >= current_turn_player_state(turn_state).base_bet
    /\ available_actions_for_current_turn(turn_state) = <<"hit", "stand", "surrender">>
    /\ \E u \in DOMAIN turn_state.player_states :
           turn_state.player_states[u].insurance_bet > 0

-----------------------------------------------------------------------------
(* Settlement of the hands *)

\* the action log holds an accepted `action` of the player
HasActed(st, u, action) ==
    \E i \in 1..Len(st.action_log) :
        st.action_log[i].user_id = u /\ st.action_log[i].action = action

\* amount is x times the wager, x = times2 / 2, to the cent
IsTimesHalf(amount, times2, wager) ==
    2 * amount - times2 * wager \in {-1, 0, 1}

\* the result and the payout C12 states for a hand at settlement
StatedSettlement(hand, surrendered, dealer_cards) ==
    LET player_score == hand_score(hand.cards)
        dealer_score == hand_score(dealer_cards)
        player_natural == Len(hand.cards) = 2 /\ player_score = 21 /\ ~hand.is_split_hand
        dealer_natural == Len(dealer_cards) = 2 /\ dealer_score = 21
        is(result, times2) ==
            hand.result = result /\ IsTimesHalf(hand.payout[1], times2, hand.bet)
    IN  IF player_score > 21 THEN is("bust", -2)
        ELSE IF surrendered THEN is("surrender", -1)
        ELSE IF player_natural /\ dealer_natural THEN is("push", 0)
        ELSE IF player_natural THEN is("blackjack", 3)
        ELSE IF dealer_natural THEN is("lose", -2)
        ELSE IF dealer_score > 21 THEN is("win", 2)
        ELSE IF player_score > dealer_score THEN is("win", 2)
        ELSE IF player_score < dealer_score THEN is("lose", -2)
        ELSE is("push", 0)

\* C12: in a settled round every hand carries the result and the payout of the
\* stated precedence: bust loses the wager; surrender loses half of it and stays
\* surrender; then player and dealer natural push, a player natural alone is paid
\* 1.5 times the wager, a dealer natural alone loses; then a dealer bust wins, the
\* higher score wins, the lower loses, equal scores push. A natural is a two-card
\* 21 on a hand that is not a split hand. Halves of a cent are rounded to a cent.
C12_SettlementPrecedence ==
    RoundSettled =>
        \A u \in DOMAIN turn_state.player_states :
            LET ps == turn_state.player_states[u]
            IN  \A i \in 1..Len(ps.hands) :
                    /\ ps.hands[i].status = "resolved"
                    /\ ps.hands[i].payout # <<>>
                    /\ StatedSettlement(ps.hands[i], HasActed(turn_state, u, "surrender"),
                                        turn_state.dealer_cards)

\* a settled round in which a split hand holding a two-card 21 won its wager, no
\* more, next to a natural blackjack paid 1.5 times its wager
C12_Witness ==
    /\ RoundSettled
    /\ \E hand \in HandsOf(turn_state) :
           /\ hand.is_split_hand
           /\ Len(hand.cards) = 2
           /\ hand_score(hand.cards) = 21
           /\ hand.result = "win"
           /\ hand.payout = <<hand.bet>>
    /\ \E hand \in HandsOf(turn_state) :
           /\ hand.result = "blackjack"
           /\ IsTimesHalf(hand.payout[1], 3, hand.bet)

\* the player of test_insurance_offsets_main_loss_when_dealer_blackjack, a wager of
\* 10.00 on 10-9 with an insurance wager of 5.00 against a dealer holding A-10,
\* seated with a second player who stood on K-K without insurance
InsuredRoundOfTest ==
    [TableTurnState(<<"u1", "u2">>, "r1", build_deck)
       EXCEPT !.dealer_cards = <<"A", "10">>,
              !.player_states =
                  [u \in {"u1", "u2"} |->
                      IF u = "u1"
                      THEN [TablePlayerState(<<TableHandState(<<"10", "9">>, 1000, FALSE)>>,
                                             1000, 100000)
                              EXCEPT !.hands[1].status = "stood",
                                     !.active_hand_index = 1,
                                     !.committed_bet = 1500,
                                     !.insurance_bet = 500,
                                     !.insurance_decided = TRUE]
                      ELSE [TablePlayerState(<<TableHandState(<<"K", "K">>, 1000, FALSE)>>,
                                             1000, 100000)
                              EXCEPT !.hands[1].status = "stood",
                                     !.active_hand_index = 1,
                                     !.insurance_decided = TRUE]]]

\* C13: in a settled round a player with insurance_bet > 0 has insurance_payout =
\* 2 x insurance_bet when the dealer holds a natural blackjack and -insurance_bet
\* otherwise, whatever the results of the player's hands, a player with no
\* insurance has insurance_payout 0, and total_payout is the sum of the hand
\* payouts plus insurance_payout. With a wager of 10.00, insurance 5.00 and a dealer
\* blackjack the hand pays -10.00, the insurance +10.00, the total is 0 and the
\* balance is unchanged.
C13_InsuranceSettlesIndependently ==
    /\ RoundSettled =>
           \A u \in DOMAIN turn_state.player_states :
               LET ps == turn_state.player_states[u]
                   dealer_natural == /\ Len(turn_state.dealer_cards) = 2
                                     /\ hand_score(turn_state.dealer_cards) = 21
               IN  /\ ps.insurance_payout =
                          IF ps.insurance_bet > 0
                          THEN IF dealer_natural THEN 2 * ps.insurance_bet
                               ELSE -ps.insurance_bet
                          ELSE 0
                   /\ ps.total_payout = HandsPayout(ps) + ps.insurance_payout
    /\ \A r \in settle_table_round(InsuredRoundOfTest, [u \in Users |-> 100000], "test") :
           LET ps == r[1].player_states["u1"]
           IN  /\ ps.hands[1].result = "lose"
               /\ ps.hands[1].payout = <<-1000>>
               /\ ps.insurance_payout = 1000
               /\ ps.total_payout = 0
               /\ r[2]["u1"] = 100000
               /\ r[1].player_states["u2"].insurance_payout = 0
               /\ r[1].player_states["u2"].total_payout = -1000

\* a settled round with a dealer blackjack in which an insured player was paid
\* twice the insurance wager although the hand they doubled down on went bust
C13_Witness ==
    /\ RoundSettled
    /\ natural_blackjack(turn_state.dealer_cards)
    /\ \E u \in DOMAIN turn_state.player_states :
           LET ps == turn_state.player_states[u]
           IN  /\ ps.insurance_bet > 0
               /\ ps.insurance_payout = 2 * ps.insurance_bet
               /\ \E i \in 1..Len(ps.hands) : ps.hands[i].result = "bust"
               /\ ps.total_payout = HandsPayout(ps) + 2 * ps.insurance_bet

-----------------------------------------------------------------------------
(* The effects of the actions *)

\* insurance is in the legality set of the current hand
InsuranceOffered(st) ==
    /\ HasPlayableCurrentHand(st)
    /\ "insurance" \in Range(available_actions_for_current_turn(st))

\* C14: a legal insurance action sets insurance_bet to half the base bet (to the
\* cent), sets insurance_decided, raises committed_bet by exactly the insurance
\* bet, and keeps the turn: the current-turn player, their active hand index and
\* their hands are what they were, no balance changes, and the action reports the
\* round as not finished.
C14_InsuranceKeepsTurn ==
    InsuranceOffered(turn_state) =>
        LET u == current_turn_user_id(turn_state)
            old == turn_state.player_states[u]
        IN  \A timed_out \in BOOLEAN :
                \A r \in apply_table_action(turn_state, balance, u, "insurance", timed_out) :
                    LET new == r.st.player_states[u]
                    IN  /\ r.error = None
                        /\ ~r.round_finished
                        /\ IsTimesHalf(new.insurance_bet, 1, old.base_bet)
                        /\ new.insurance_bet > 0
                        /\ new.insurance_decided
                        /\ new.committed_bet = old.committed_bet + new.insurance_bet
                        /\ current_turn_user_id(r.st) = u
                        /\ r.st.turn_index = turn_state.turn_index
                        /\ new.active_hand_index = old.active_hand_index
                        /\ new.hands = old.hands
                        /\ r.st.phase = "player_turns"
                        /\ r.bal = balance

\* the current player has just taken insurance and still holds the turn on the
\* same two-card hand, with the insurance wager added to the committed bet
C14_Witness ==
    /\ HasPlayableCurrentHand(turn_state)
    /\ turn_state.last_action # <<>>
    /\ turn_state.last_action[1].action = "insurance"
    /\ turn_state.last_action[1].user_id = current_turn_user_id(turn_state)
    /\ LET ps == current_turn_player_state(turn_state)
       IN  /\ ps.insurance_bet > 0
           /\ ps.insurance_decided
           /\ ps.committed_bet = ps.base_bet + ps.insurance_bet
           /\ ps.active_hand_index = 0
           /\ Len(ps.hands[1].cards) = 2

\* the player's request as the handler applies it, or the auto-stand of the sweep
AppliedAs(action, timed_out) == timed_out => action = "stand"

\* C15: when the current player applies an accepted action other than insurance
\* while insurance is offered to them, the action is recorded with the implicit
\* decline and leaves insurance_decided true and insurance_bet 0. Once a player's
\* insurance_decided is true it stays true for the round with the insurance bet
\* unchanged, and insurance is never in that player's legality set again.
C15_ActingDeclinesInsurance ==
    /\ [](InsuranceOffered(turn_state) =>
             LET u == current_turn_user_id(turn_state)
             IN  /\ turn_state.player_states[u].insurance_bet = 0
                 /\ \A action \in TurnActions \ {"insurance"}, timed_out \in BOOLEAN :
                        AppliedAs(action, timed_out) =>
                            \A r \in apply_table_action(turn_state, balance, u, action,
                                                         timed_out) :
                                r.error = None =>
                                    /\ r.st.player_states[u].insurance_decided
                                    /\ r.st.player_states[u].insurance_bet = 0
                                    /\ \E i \in 1..Len(r.st.action_log) :
                                           /\ r.st.action_log[i].user_id = u
                                           /\ r.st.action_log[i].insurance_auto_declined)
    /\ [](HasPlayableCurrentHand(turn_state) =>
             (current_turn_player_state(turn_state).insurance_decided =>
                  "insurance" \notin Range(available_actions_for_current_turn(turn_state))))
    /\ [][SameRound =>
              \A u \in StayingPlayers :
                  turn_state.player_states[u].insurance_decided =>
                      /\ turn_state'.player_states[u].insurance_decided
                      /\ turn_state'.player_states[u].insurance_bet
                             = turn_state.player_states[u].insurance_bet]_vars

\* the current player split a pair while insurance was offered and is back on a
\* first hand of two cards under a hidden hole card and a dealer Ace, with the
\* bankroll to cover the insurance wager: only the recorded decline keeps
\* insurance out of the legality set
C15_Witness ==
    /\ HasPlayableCurrentHand(turn_state)
    /\ LET ps == current_turn_player_state(turn_state)
           hand == current_turn_hand(turn_state)
       IN  /\ ps.insurance_decided
           /\ ps.insurance_bet = 0
           /\ Len(ps.hands) = 2
           /\ turn_state.last_action[1].action = "split"
           /\ turn_state.last_action[1].insurance_auto_declined
           /\ can_take_insurance(turn_state, [ps EXCEPT !.insurance_decided = FALSE], hand)
           /\ "insurance" \notin Range(available_actions_for_current_turn(turn_state))

\* the player has a playable hand at or after the active hand index
PlayableFrom(ps) ==
    \E i \in (ps.active_hand_index + 1)..Len(ps.hands) : hand_is_playable(ps.hands[i])

\* the first player after u in turn order, wrapping, who has a playable hand left;
\* None when there is none
NextPlayerAfter(st, u) ==
    LET n == Len(st.players)
        p == CHOOSE i \in 1..n : st.players[i] = u
        order == [k \in 1..(n - 1) |-> st.players[((p - 1 + k) % n) + 1]]
        playable == {k \in 1..(n - 1) : PlayableFrom(st.player_states[order[k]])}
    IN  IF playable = {} THEN None
        ELSE order[CHOOSE k \in playable : \A j \in playable : k <= j]

SurrenderOffered(st) ==
    /\ HasPlayableCurrentHand(st)
    /\ "surrender" \in Range(available_actions_for_current_turn(st))

\* C16: a legal surrender gives the hand the result surrender and the payout of
\* minus half the wager (to the cent), with status surrendered; the surrendering
\* player has no further hand, so the turn passes to the next player in turn
\* order who has a playable hand, on that hand, and when no player has one the
\* round is settled in the same call (the hand then reads resolved, its result
\* and payout kept).
C16_SurrenderAdvances ==
    SurrenderOffered(turn_state) =>
        LET u == current_turn_user_id(turn_state)
            old == turn_state.player_states[u]
            hi == old.active_hand_index + 1
            next_player == NextPlayerAfter(turn_state, u)
        IN  /\ Len(old.hands) = 1
            /\ \A r \in apply_table_action(turn_state, balance, u, "surrender", FALSE) :
                   LET hand == r.st.player_states[u].hands[hi]
                   IN  /\ r.error = None
                       /\ hand.result = "surrender"
                       /\ IsTimesHalf(hand.payout[1], -1, old.hands[hi].bet)
                       /\ hand.cards = old.hands[hi].cards
                       /\ hand.bet = old.hands[hi].bet
                       /\ r.st.player_states[u].active_hand_index >= Len(old.hands) - 1
                       /\ IF next_player # None
                          THEN /\ ~r.round_finished
                               /\ hand.status = "surrendered"
                               /\ r.st.phase = "player_turns"
                               /\ current_turn_user_id(r.st) = next_player
                               /\ has_current_hand(r.st)
                               /\ hand_is_playable(current_turn_hand(r.st))
                               /\ r.bal = balance
                          ELSE /\ r.round_finished
                               /\ hand.status = "resolved"
                               /\ r.st.phase = "settled"

\* the player before the current one has just surrendered: the hand is marked
\* surrendered at minus half its wager and the turn is at the next player
C16_Witness ==
    /\ HasPlayableCurrentHand(turn_state)
    /\ turn_state.last_action # <<>>
    /\ turn_state.last_action[1].action = "surrender"
    /\ turn_state.last_action[1].user_id # current_turn_user_id(turn_state)
    /\ turn_state.last_action[1].user_id \in DOMAIN turn_state.player_states
    /\ LET ps == turn_state.player_states[turn_state.last_action[1].user_id]
       IN  /\ ps.hands[1].status = "surrendered"
           /\ ps.hands[1].result = "surrender"
           /\ IsTimesHalf(ps.hands[1].payout[1], -1, ps.hands[1].bet)
           /\ ps.active_hand_index = 1

SplitOffered(st) ==
    /\ HasPlayableCurrentHand(st)
    /\ "split" \in Range(available_actions_for_current_turn(st))

\* C17: a legal split replaces the hand by two hands of two cards: the first
\* keeps the hand's first card, the second, placed directly after it, takes the
\* hand's second card, and each receives one of the next two cards of the shoe,
\* in that order. Both carry the hand's wager and are split hands; the other hands
\* keep their order; committed_bet grows by exactly that wager and the number of
\* hands by exactly one.
C17_SplitMakesTwoHands ==
    SplitOffered(turn_state) =>
        LET u == current_turn_user_id(turn_state)
            old == turn_state.player_states[u]
            hi == old.active_hand_index + 1
            hand == old.hands[hi]
        IN  \A r \in apply_table_action(turn_state, balance, u, "split", FALSE) :
                LET new == r.st.player_states[u]
                IN  /\ r.error = None
                    /\ Len(new.hands) = Len(old.hands) + 1
                    /\ Len(new.hands[hi].cards) = 2
                    /\ Len(new.hands[hi + 1].cards) = 2
                    /\ new.hands[hi].cards[1] = hand.cards[1]
                    /\ new.hands[hi + 1].cards[1] = hand.cards[2]
                    /\ \E d \in draw_cards(turn_state.shoe, 2) :
                           /\ d[1] = <<new.hands[hi].cards[2], new.hands[hi + 1].cards[2]>>
                           /\ ~r.round_finished => r.st.shoe = d[2]
                    /\ new.hands[hi].bet = hand.bet
                    /\ new.hands[hi + 1].bet = hand.bet
                    /\ new.hands[hi].is_split_hand /\ new.hands[hi + 1].is_split_hand
                    /\ \A j \in 1..(hi - 1) : new.hands[j] = old.hands[j]
                    /\ \A j \in (hi + 1)..Len(old.hands) : new.hands[j + 1].cards = old.hands[j].cards
                    /\ new.committed_bet = old.committed_bet + hand.bet
                    /\ new.committed_bet <= new.bankroll_at_start

\* the current player has just split a pair of kings drawn from a forced shoe: two
\* split hands of two cards at the same wager, the committed bet doubled
C17_Witness ==
    /\ InRound
    /\ turn_state.last_action # <<>>
    /\ turn_state.last_action[1].action = "split"
    /\ Len(turn_state.players) = 3
    /\ LET ps == turn_state.player_states[turn_state.last_action[1].user_id]
       IN  /\ Len(ps.hands) = 2
           /\ ps.hands[1].cards = <<"K", "A">>
           /\ ps.hands[2].cards = <<"K", "K">>
           /\ ps.hands[1].is_split_hand /\ ps.hands[2].is_split_hand
           /\ ps.hands[1].bet = ps.base_bet /\ ps.hands[2].bet = ps.base_bet
           /\ ps.committed_bet = 2 * ps.base_bet

-----------------------------------------------------------------------------
(* Round start *)

\* this step creates a round
RoundStarts == used_round_ids' # used_round_ids

\* the draw orders handed to _set_forced_shoe_draw_order
RegisteredDrawOrders == {t.draw_order : t \in InitialTables} \ {<<>>}

\* the round st has just been dealt to `players` from the draw sequence c: one card
\* to each player in turn order, the dealer's up-card, a second card to each
\* player, the dealer's hole card
DealtInOrder(st, players, c) ==
    LET n == Len(players)
    IN  /\ st.players = players
        /\ DOMAIN st.player_states = Range(players)
        /\ \A i \in 1..n :
               /\ Len(st.player_states[players[i]].hands) = 1
               /\ st.player_states[players[i]].hands[1].cards = <<c[i], c[n + 1 + i]>>
        /\ Len(st.dealer_cards) >= 2
        /\ st.dealer_cards[1] = c[n + 1]
        /\ st.dealer_cards[2] = c[2 * n + 2]

\* C18: the step that starts a round deals, from the draw sequence c1, c2, ...,
\* c(i) and c(n+1+i) to the i-th of the n players in turn order, c(n+1) as the
\* dealer's up-card and c(2n+2) as the hole card. When a draw order is registered
\* for the table the draw sequence is that order, the cards left of it are the
\* round's shoe, and the registry entry is removed by the start; no draw order is
\* registered once a round has started.
C18_DealOrder ==
    /\ [][RoundStarts =>
              /\ turn_state' # NoRound
              /\ table_forced_shoes' = <<>>
              /\ IF table_forced_shoes # <<>>
                 THEN \E c \in RegisteredDrawOrders :
                          /\ Len(c) = Len(table_forced_shoes)
                          /\ DealtInOrder(turn_state', table_players, c)
                          /\ turn_state'.phase = "player_turns" =>
                                 turn_state'.shoe.order
                                     = Reverse(SubSeq(c, 2 * Len(table_players) + 3, Len(c)))
                 ELSE \E d \in draw_cards(build_deck, 2 * Len(table_players) + 2) :
                          DealtInOrder(turn_state', table_players, d[1])]_vars
    /\ [](used_round_ids # {} => table_forced_shoes = <<>>)

\* a round of three players just dealt from the registered draw order K K K A A K
\* K K ...: u1 holds K-A, u2 and u3 K-K, the dealer shows the Ace over a King, and
\* the registry is empty
C18_Witness ==
    /\ InRound
    /\ turn_state.players = <<"u1", "u2", "u3">>
    /\ Len(turn_state.action_log) = 1
    /\ turn_state.player_states["u1"].hands[1].cards = <<"K", "A">>
    /\ turn_state.player_states["u2"].hands[1].cards = <<"K", "K">>
    /\ turn_state.player_states["u3"].hands[1].cards = <<"K", "K">>
    /\ turn_state.dealer_cards = <<"A", "K">>
    /\ turn_state.dealer_hidden
    /\ turn_state.shoe.order = <<"K", "K", "K", "A">>
    /\ table_forced_shoes = <<>>

RoundActive == InRound /\ turn_state.status = "active"

\* C19: a round is created only in a step before which the table has at least two
\* seated players, every seated player is in the ready set and no round is
\* active; the round is created with those players in their order and two cards
\* dealt to each of them and to the dealer, and the step empties the ready set
\* and the pending bets. While a round is active the ready set and the pending
\* bets stay empty, so a set_ready handler that resumes after another one started
\* the round finds the table not ready and starts nothing.
C19_RoundCreatedOnceAllReady ==
    /\ [][RoundStarts =>
              /\ Len(table_players) >= 2
              /\ \A i \in 1..Len(table_players) : table_players[i] \in table_ready
              /\ ~RoundActive
              /\ turn_state' # NoRound
              /\ turn_state'.players = table_players
              /\ \A u \in Range(table_players) :
                     Len(turn_state'.player_states[u].hands[1].cards) = 2
              /\ Len(turn_state'.dealer_cards) >= 2
              /\ table_ready' = {}
              /\ table_pending_bets' = NoBets]_vars
    /\ [](RoundActive =>
             /\ table_ready = {}
             /\ table_pending_bets = NoBets
             /\ ~(Len(table_players) >= 2
                  /\ \A i \in 1..Len(table_players) : table_players[i] \in table_ready))

\* a round just started by one set_ready handler while another handler, entered
\* before the start, is still suspended: the ready set is empty
C19_Witness ==
    /\ RoundActive
    /\ Len(turn_state.action_log) = 1
    /\ set_ready_suspended > 0
    /\ table_ready = {}
    /\ table_pending_bets = NoBets

-----------------------------------------------------------------------------
(* Dealer play *)

\* the dealer's cards before the settlement of this step: those of the round, or
\* the two cards of the deal when the step also starts the round
DealerCardsBefore ==
    IF RoundStarts THEN SubSeq(turn_state'.dealer_cards, 1, 2) ELSE turn_state.dealer_cards

\* C20: the step that settles a round leaves the hole card revealed. If the
\* dealer's two cards are a natural blackjack, or every hand of the settled round
\* is bust or surrendered, the dealer has drawn nothing and holds exactly two
\* cards. Otherwise the dealer has drawn one card at a time while below 17: every
\* score before the last card is below 17 and the final score is at least 17, one
\* dealer_hit recorded per card.
C20_DealerPlay ==
    [][Settling =>
          LET dealer_cards == turn_state'.dealer_cards
              n == Len(dealer_cards)
              dealer_hits == Cardinality({i \in 1..Len(turn_state'.action_log) :
                                             turn_state'.action_log[i].action = "dealer_hit"})
          IN  /\ ~turn_state'.dealer_hidden
              /\ n >= 2
              /\ Len(DealerCardsBefore) = 2
              /\ SubSeq(dealer_cards, 1, 2) = DealerCardsBefore
              /\ dealer_hits = n - 2
              /\ IF \/ natural_blackjack(DealerCardsBefore)
                    \/ \A hand \in HandsOf(turn_state') : hand.result \in {"bust", "surrender"}
                 THEN n = 2
                 ELSE /\ \A k \in 2..(n - 1) : hand_score(SubSeq(dealer_cards, 1, k)) < 17
                      /\ hand_score(dealer_cards) >= 17]_vars

\* a settled round in which the dealer, holding 2-4-5 after one card, drew a
\* second card and stood on 20 against a player's live hand
C20_Witness ==
    /\ RoundSettled
    /\ ~turn_state.dealer_hidden
    /\ turn_state.dealer_cards = <<"2", "4", "5", "9">>
    /\ \E hand \in HandsOf(turn_state) : hand.result \in {"win", "lose", "push"}

-----------------------------------------------------------------------------
(* hand_score *)

\* a card's value with the Ace left out: J, Q, K count 10, the others their number
PipValue(card) ==
    CASE card \in {"J", "Q", "K", "10"} -> 10
      [] card = "2" -> 2 [] card = "3" -> 3 [] card = "4" -> 4 [] card = "5" -> 5
      [] card = "6" -> 6 [] card = "7" -> 7 [] card = "8" -> 8 [] card = "9" -> 9

\* the totals of a hand, each card counted once, each Ace as 1 or as 11
AceTotals(cards) ==
    { SumSeq([i \in 1..Len(cards) |->
                 IF cards[i] = "A" THEN choice[i] ELSE PipValue(cards[i])])
      : choice \in [1..Len(cards) -> {1, 11}] }

\* C11: for every hand hand_score returns the greatest total <= 21 obtainable by
\* counting each Ace as 1 or 11 and every other card at its value, each card once;
\* when no total is <= 21 it returns the least total (every Ace counted as 1).
C11_HandScoreIsBestTotal ==
    scored_total # <<>> =>
        LET totals == AceTotals(scored_hand)
            within == {t \in totals : t <= 21}
        IN  /\ scored_total[1] \in totals
            /\ within # {} => /\ scored_total[1] <= 21
                              /\ \A t \in within : t <= scored_total[1]
            /\ within = {} => \A t \in totals : scored_total[1] <= t

\* hand_score has returned 22 for a hand of four cards with two Aces, both Aces
\* counted as 1
C11_Witness ==
    /\ scored_total = <<22>>
    /\ Len(scored_hand) = 4
    /\ Cardinality({i \in 1..Len(scored_hand) : scored_hand[i] = "A"}) = 2

-----------------------------------------------------------------------------
(* The turn-timeout sweep *)

\* the sweep finds the current turn's deadline elapsed
TurnIsDue(st, players) ==
    /\ st # NoRound
    /\ Len(players) >= 2
    /\ Len(st.players) >= 2
    /\ st.status = "active"
    /\ st.phase = "player_turns"
    /\ st.turn_deadline = "elapsed"

\* the position of the current hand: <<turn index, hand index>>
TurnPosition(st) == <<st.turn_index, current_turn_player_state(st).active_hand_index>>

\* C21: when the sweep runs on a turn whose deadline has elapsed, the current
\* player's current hand is stood (recorded as turn_timeout_auto_stand), the turn
\* is on another playable hand or the round is settled, turn_timeout is emitted
\* and turn_action_applied is not; when the deadline has not elapsed the sweep
\* emits no turn_timeout and leaves the round as it is.
C21_TimeoutAutoStands ==
    \A o \in process_turn_timeouts(turn_state, table_players, balance) :
        IF TurnIsDue(turn_state, table_players)
        THEN LET u == current_turn_user_id(turn_state)
                 hi == turn_state.player_states[u].active_hand_index + 1
                 hand == o.st.player_states[u].hands[hi]
                 stood == [i \in 1..Len(o.st.action_log) |->
                              o.st.action_log[i].action = "turn_timeout_auto_stand"
                                  /\ o.st.action_log[i].user_id = u]
             IN  /\ HasPlayableCurrentHand(turn_state)
                 /\ o.st # NoRound
                 /\ hand.cards = turn_state.player_states[u].hands[hi].cards
                 /\ hand.bet = turn_state.player_states[u].hands[hi].bet
                 /\ \E i \in 1..Len(stood) : stood[i]
                 /\ "turn_timeout" \in Range(o.emits)
                 /\ "turn_action_applied" \notin Range(o.emits)
                 /\ IF o.st.phase = "settled"
                    THEN /\ hand.status = "resolved"
                         /\ hand.result \in {"win", "lose", "push"}
                         /\ "table_round_resolved" \in Range(o.emits)
                    ELSE /\ hand.status = "stood"
                         /\ o.st.phase = "player_turns"
                         /\ HasPlayableCurrentHand(o.st)
                         /\ TurnPosition(o.st) # TurnPosition(turn_state)
                         /\ o.st.turn_deadline = "future"
                         /\ o.bal = balance
        ELSE /\ "turn_timeout" \notin Range(o.emits)
             /\ o.st \in {turn_state, NoRound}
             /\ o.bal = balance

\* the sweep has just stood for a player whose deadline elapsed and the turn is at
\* another player's playable hand
C21_Witness ==
    /\ HasPlayableCurrentHand(turn_state)
    /\ turn_state.turn_deadline = "future"
    /\ turn_state.last_action # <<>>
    /\ turn_state.last_action[1].action = "turn_timeout_auto_stand"
    /\ turn_state.last_action[1].user_id # current_turn_user_id(turn_state)
    /\ turn_state.last_action[1].user_id \in DOMAIN turn_state.player_states
    /\ turn_state.player_states[turn_state.last_action[1].user_id].hands[1].status = "stood"

-----------------------------------------------------------------------------
(* Disconnect grace and eviction *)

\* user_id is seated with no live connection and a reconnect deadline that has
\* been reached
EvictionDue(user_id) ==
    /\ reconnect_deadlines[user_id] = "elapsed"
    /\ ~is_online(user_to_sids, user_id)
    /\ user_id \in Range(table_players)

\* the outcomes of the reconnect sweep run now
SweptNow ==
    process_reconnect_deadlines(reconnect_deadlines, user_to_sids, table_players, table_ready,
                                table_pending_bets, turn_state, balance, table_forced_shoes)

\* C22: a seated player with no live connection whose grace deadline has elapsed
\* is in the sweep's list, and the eviction takes the player out of the table and
\* announces it; a round left with fewer than two players is stopped with the
\* reason not_enough_players and no balance change, a round left with two or more
\* goes on without the player; after the sweep exactly the players who were not
\* due are seated, in their order.
C22_GraceExpiryEvicts ==
    \A u \in Users :
        EvictionDue(u) =>
            /\ \A user_ids \in collect_expired_user_ids(reconnect_deadlines, user_to_sids) :
                   u \in Range(user_ids)
            /\ \A o \in evict_offline_user(table_players, table_ready, table_pending_bets,
                                           turn_state, balance, table_forced_shoes, u) :
                   /\ o.players = RemoveFromSeq(table_players, u)
                   /\ "player_auto_removed" \in Range(o.emits)
                   /\ turn_state # NoRound =>
                          /\ u \in Range(turn_state.players)
                          /\ IF Len(turn_state.players) - 1 < 2
                             THEN /\ o.st = NoRound
                                  /\ o.ended_reason = "not_enough_players"
                                  /\ "table_game_ended" \in Range(o.emits)
                                  /\ o.bal = balance
                             ELSE /\ o.st # NoRound
                                  /\ o.st.players = RemoveFromSeq(turn_state.players, u)
                                  /\ o.ended_reason = None
            /\ \A o \in SweptNow :
                   /\ o.players = SelectSeq(table_players, LAMBDA v : ~EvictionDue(v))
                   /\ o.deadlines[u] = None
                   /\ Len(o.players) < 2 => o.st = NoRound

\* u1 has been taken out of a round of three, and u2, seated in the round of two
\* that is left, has no connection and a grace deadline that has elapsed: the sweep
\* evicts u2 and stops the round, and u3 stays seated
C22_Witness ==
    /\ EvictionDue("u2")
    /\ table_players = <<"u2", "u3">>
    /\ is_online(user_to_sids, "u3")
    /\ ~is_online(user_to_sids, "u1")
    /\ turn_state # NoRound
    /\ turn_state.status = "active"
    /\ turn_state.players = <<"u2", "u3">>
    /\ \E i \in 1..Len(turn_state.action_log) :
           /\ turn_state.action_log[i].action = "player_left_turn_cycle"
           /\ turn_state.action_log[i].user_id = "u1"

DeadlineMaps == [Users -> {None, "future", "elapsed"}]

C24_DeadlineOnlyWhenOfflineAndSeated ==
    \A u \in Users :
        has_reconnect_deadline(reconnect_deadlines, u) =>
            /\ ~is_online(user_to_sids, u)
            /\ u \in Range(table_players)

\* C25: a second pass of the reconnect sweep right after a first one changes
\* nothing and emits nothing, and so does a second pass of the turn-timeout sweep:
\* no second eviction, no second auto-stand, no second settlement.
C25_SweepsAreIdempotent ==
    /\ \A o \in SweptNow :
           \A again \in process_reconnect_deadlines(o.deadlines, user_to_sids, o.players,
                                                    o.ready, o.pending_bets, o.st, o.bal,
                                                    o.forced_shoes) :
               /\ again.players = o.players
               /\ again.ready = o.ready
               /\ again.pending_bets = o.pending_bets
               /\ again.forced_shoes = o.forced_shoes
               /\ again.st = o.st
               /\ again.bal = o.bal
               /\ again.deadlines = o.deadlines
               /\ again.db = "none"
               /\ again.emits = <<>>
    /\ \A o \in process_turn_timeouts(turn_state, table_players, balance) :
           \A again \in process_turn_timeouts(o.st, table_players, o.bal) :
               /\ again.st = o.st
               /\ again.bal = o.bal
               /\ again.db = "none"
               /\ again.emits = <<>>

\* both sweeps have work: the current turn's deadline has elapsed, in a round of
\* three, and a seated player without a connection is past the grace deadline
C25_Witness ==
    /\ TurnIsDue(turn_state, table_players)
    /\ Len(turn_state.players) = 3
    /\ \E u \in Users : EvictionDue(u) /\ u # current_turn_user_id(turn_state)

-----------------------------------------------------------------------------
(* The round state after settlement *)

\* C26: no settled round state is registered for the table once the handler that
\* settled the round has returned: the table has no round state until the next
\* round is started.
C26_SettledStateIsDiscarded == InRound => turn_state.phase # "settled"

\* the outcomes of the settlement of the round as it stands
SettledNow == settle_table_round(turn_state, balance, "all_player_hands_resolved")

\* C28: the settlement of a round ends with the round in phase settled and status
\* ended whether its transaction commits or rolls back, and a settlement whose
\* transaction rolled back leaves a round state that differs from the one the
\* same settlement leaves when the transaction commits.
C28_FailedPersistenceIsSurfaced ==
    (InRound /\ turn_state.status = "active") =>
        /\ \A r \in SettledNow : r[1].phase = "settled" /\ r[1].status = "ended"
        /\ \A r1, r2 \in SettledNow :
               (r1[3] = "commit" /\ r2[3] = "rollback") => r1[1] # r2[1]

-----------------------------------------------------------------------------
(* The audit trail of the admin commands *)

\* C29: every invocation of the admin command dispatcher, whether it succeeds or
\* fails (empty, over-long or unparsable command text, unknown command,
\* insufficient role, missing target, or successful execution), is recorded as
\* exactly one audit entry carrying the actor, the command text, the outcome and
\* the affected target
C29_EveryInvocationIsAudited ==
    \A identity \in AdminIdentities, command_text \in AdminCommandTexts :
        \A o \in execute_admin_command(identity, command_text, table_players, table_ready,
                                       table_pending_bets, turn_state, balance,
                                       table_forced_shoes) :
            /\ Len(o.audit) = 1
            /\ o.audit[1].actor_user_id = identity.user_id
            /\ o.audit[1].command_text = strip(command_text)
            /\ o.audit[1].status = (IF o.ok THEN "success" ELSE "error")
            /\ o.audit[1].message = o.message
            /\ o.ok => o.audit[1].target_table_id = TableId

-----------------------------------------------------------------------------
(* A round that has ended, and the turn it is applied to *)

\* the round of the table is over: settled, stopped, or its table closed or left
\* with fewer than two players
RoundIsOver ==
    /\ used_round_ids # {}
    /\ \/ turn_state = NoRound
       \/ turn_state.status = "ended"
       \/ Len(table_players) < 2

\* this step is a pass of the timer reaching the table and standing for a player
SweepStandsFor(user_id) ==
    /\ timer_sweep.pc = "suspended"
    /\ timer_sweep'.pc = "idle"
    /\ timer_sweep'.timed_out_user = user_id

\* the records this step adds to the log of the registered round
NewLogEntries ==
    IF turn_state = NoRound \/ turn_state' = NoRound THEN {}
    ELSE {turn_state'.action_log[i] :
              i \in (Len(turn_state.action_log) + 1)..Len(turn_state'.action_log)}

\* C27: once a round has been settled or force-ended (admin end_round, table
\* closed, or fewer than two players), no later step applies a player action, an
\* auto-stand, a dealer draw, a settlement or a balance change for that round,
\* also not a pass of the timer that took the round's state before it gave up
\* the event loop and goes on after the round was ended
C27_EndedRoundIsTerminal ==
    [][RoundIsOver =>
           /\ balance' = balance
           /\ db_last' = db_last
           /\ \A u \in Users : ~SweepStandsFor(u)
           /\ \A entry \in NewLogEntries : entry.action = "player_left_turn_cycle"]_vars

\* the records of a player's action or of an auto-stand among those this step adds
NewPlayEntries ==
    {entry \in NewLogEntries : entry.action \in TurnActions \cup {"turn_timeout_auto_stand"}}

\* the record this step adds first to the log of the registered round
FirstNewLogEntry == turn_state'.action_log[Len(turn_state.action_log) + 1]

\* C30: under any interleaving of take_turn_action handlers, passes of the timer
\* and removal handlers at their suspension points, every action that is applied
\* (a player's action or a timer auto-stand) is applied on behalf of the player
\* who is the current-turn player of that table at the instant of application
C30_AppliedForCurrentTurnPlayer ==
    [][/\ \A u \in Users :
              SweepStandsFor(u) =>
                  turn_state # NoRound /\ u = current_turn_user_id(turn_state)
       /\ NewPlayEntries # {} =>
              /\ FirstNewLogEntry \in NewPlayEntries
              /\ FirstNewLogEntry.user_id = current_turn_user_id(turn_state)]_vars

-----------------------------------------------------------------------------
(* The turn timer scheduled fairly *)

\* _turn_timer_loop wakes every TIMER_TICK_SECONDS and runs one pass of
\* _process_turn_timeouts; time goes on; the players may act or not
\* the steps that end a suspended pass: those of TimerSweepReaches
TimerSweepEnds ==
    /\ timer_sweep.pc = "suspended"
    /\ timer_sweep' \in [pc : {"idle"}, timed_out_user : Users \cup {None}]

\* _turn_timer_loop wakes every TIMER_TICK_SECONDS and starts a pass of
\* _process_turn_timeouts while a round is registered, a pass that is suspended
\* at an emit goes on, and time goes on; the players and the administrators may
\* act or not
SpecLive ==
    /\ InitSweep
    /\ [][NextSweep]_vars
    /\ WF_vars(TimerSweepCaptures)
    /\ WF_timer_sweep(TimerSweepEnds)
    /\ WF_vars(Tick /\ SweepFollows(turn_state))

\* a round is registered and active in phase player_turns
RoundInPlayerTurns ==
    /\ turn_state # NoRound
    /\ turn_state.status = "active"
    /\ turn_state.phase = "player_turns"

\* the round is settled, or it was stopped and is no longer registered
RoundSettledOrForceEnded ==
    turn_state = NoRound \/ turn_state.phase = "settled"

\* C31: with the timer pass scheduled fairly and time advancing, every round that
\* is active in phase player_turns eventually reaches phase settled or is
\* force-ended, even if no player ever submits an action
C31_RoundEventuallyEnds == RoundInPlayerTurns ~> RoundSettledOrForceEnded

\* a round of three players is settled and nobody ever submitted an action: every
\* turn was ended by the timer
C31_Witness ==
    /\ turn_state # NoRound
    /\ turn_state.phase = "settled"
    /\ Len(turn_state.players) = 3
    /\ \E i \in 1..Len(turn_state.action_log) :
           turn_state.action_log[i].action = "turn_timeout_auto_stand"
    /\ \A i \in 1..Len(turn_state.action_log) :
           turn_state.action_log[i].action \notin TurnActions

-----------------------------------------------------------------------------
(* The phases of a round *)

\* the place of a phase in player_turns -> dealer_turn -> settled
PhaseRank(phase) ==
    CASE phase = "player_turns" -> 1
      [] phase = "dealer_turn" -> 2
      [] phase = "settled" -> 3

\* the status of a registered round is ended exactly when its phase is settled
StatusFollowsPhase(st) ==
    st # NoRound => (st.status = "ended" <=> st.phase = "settled")

\* C32: the phase of a round only moves forward along player_turns ->
\* dealer_turn -> settled, never backward, and in every state another handler can
\* observe the status of the round is ended exactly when its phase is settled
C32_PhaseOnlyMovesForward ==
    [][/\ StatusFollowsPhase(turn_state)
       /\ StatusFollowsPhase(turn_state')
       /\ (turn_state # NoRound /\ turn_state' # NoRound
              /\ turn_state'.round_id = turn_state.round_id) =>
              PhaseRank(turn_state'.phase) >= PhaseRank(turn_state.phase)]_vars

\* a round whose turns were played or timed out is settled and ended
C32_Witness ==
    /\ turn_state # NoRound
    /\ turn_state.phase = "settled"
    /\ turn_state.status = "ended"
    /\ \E i \in 1..Len(turn_state.action_log) :
           turn_state.action_log[i].action \in {"stand", "turn_timeout_auto_stand"}

-----------------------------------------------------------------------------
(* The current turn of a round in player_turns *)

\* C33: in every reachable state where a registered round has status active and
\* phase player_turns, the current-turn player has a player state and their
\* active hand exists and is playable (status active, no result, score below
\* 21): after round start, after every accepted action, after every timeout and
\* after every removal of a player that leaves at least two players
C33_CurrentHandIsPlayable ==
    RoundInPlayerTurns =>
        /\ current_turn_user_id(turn_state) \in DOMAIN turn_state.player_states
        /\ has_current_hand(turn_state)
        /\ current_turn_hand(turn_state).status = "active"
        /\ current_turn_hand(turn_state).result = None
        /\ hand_score(current_turn_hand(turn_state).cards) < 21


\* a round of three was left by one player after a turn was played or timed out,
\* and the player whose turn it is holds a playable hand
C33_Witness ==
    /\ RoundInPlayerTurns
    /\ Len(turn_state.players) = 2
    /\ hand_is_playable(current_turn_hand(turn_state))
    /\ \E i \in 1..Len(turn_state.action_log) :
           /\ turn_state.action_log[i].action = "player_left_turn_cycle"
           /\ \E j \in 1..(i - 1) :
                  turn_state.action_log[j].action \in TurnActions \cup {"turn_timeout_auto_stand"}

-----------------------------------------------------------------------------
(* Removing a player whose turn it is not *)

\* the place of a player in the turn order, from 1
SeatOf(st, u) == CHOOSE i \in 1..Len(st.players) : st.players[i] = u

\* C34: removing from a round in progress a player who is not the current-turn
\* player (leave, kick, ban, move to another table or grace eviction, with at
\* least two players remaining) leaves the current-turn player and that player's
\* active hand unchanged, for every position of the removed player in the turn
\* order
C34_RemovalKeepsCurrentTurn ==
    RoundInPlayerTurns =>
        \A u \in Range(turn_state.players) \ {current_turn_user_id(turn_state)} :
            \A r \in handle_player_removed_from_turn_state(turn_state, balance, u) :
                r[1] # NoRound =>
                    /\ current_turn_user_id(r[1]) = current_turn_user_id(turn_state)
                    /\ has_current_hand(r[1])
                    /\ current_turn_hand(r[1]) = current_turn_hand(turn_state)

-----------------------------------------------------------------------------
(* Leaving a round with a hand already lost *)

\* what the hands of player u that are bust or surrendered cost at settlement:
\* the wager of a bust hand, half the wager of a surrendered one
LossIncurred(st, u) ==
    LET hands == st.player_states[u].hands
    IN  SumSeq([i \in 1..Len(hands) |->
                   IF hands[i].result = "bust" THEN hands[i].bet
                   ELSE IF hands[i].result = "surrender" THEN round_half(hands[i].bet)
                   ELSE 0])

\* this step takes player u out of the round that is in progress, or drops that
\* round
LeavesRound(u) ==
    /\ turn_state # NoRound
    /\ turn_state.status = "active"
    /\ u \in DOMAIN turn_state.player_states
    /\ turn_state' = NoRound \/ u \notin DOMAIN turn_state'.player_states

\* C35: a player who was dealt into a round and then leaves or is removed before
\* settlement still has the losses of their already-terminal hands applied to
\* their balance (a bust hand costs the full wager, a surrendered hand half the
\* wager): leaving the table or forcing the round to end cannot avoid a loss
\* already incurred in that round
C35_LeavingKeepsIncurredLoss ==
    [][\A u \in Users :
           (LeavesRound(u) /\ LossIncurred(turn_state, u) > 0) =>
               balance'[u] = Max(0, balance[u] - LossIncurred(turn_state, u))]_vars


-----------------------------------------------------------------------------
(* Wagers at round start *)

\* C36: at round start the initial wager of every player (base_bet, equal to the
\* initial committed_bet) does not exceed the balance stored for that player at
\* that moment
C36_InitialWagerWithinBalance ==
    [][RoundStarts =>
          \A u \in DOMAIN turn_state'.player_states :
              /\ turn_state'.player_states[u].base_bet
                     = turn_state'.player_states[u].committed_bet
              /\ turn_state'.player_states[u].base_bet <= balance[u]]_vars


-----------------------------------------------------------------------------
(* Committed wagers *)

\* the sum of the wagers of a player's hands
HandsWager(ps) == SumSeq([i \in 1..Len(ps.hands) |-> ps.hands[i].bet])

\* C37: in every reachable round state and for every player, committed_bet equals
\* the sum of the wagers of all of that player's hands plus insurance_bet, across
\* any sequence of hit, stand, double_down, split, surrender and insurance actions
C37_CommittedIsHandsPlusInsurance ==
    InRound =>
        \A u \in DOMAIN turn_state.player_states :
            turn_state.player_states[u].committed_bet
                = HandsWager(turn_state.player_states[u])
                  + turn_state.player_states[u].insurance_bet

\* one player has split and insured, a hand of the round was doubled down and
\* another was surrendered
C37_Witness ==
    /\ InRound
    /\ \E u \in DOMAIN turn_state.player_states :
           /\ Len(turn_state.player_states[u].hands) = 2
           /\ turn_state.player_states[u].insurance_bet > 0
    /\ \E u \in DOMAIN turn_state.player_states :
           \E i \in 1..Len(turn_state.player_states[u].hands) :
               turn_state.player_states[u].hands[i].doubled_down
    /\ \E u \in DOMAIN turn_state.player_states :
           \E i \in 1..Len(turn_state.player_states[u].hands) :
               turn_state.player_states[u].hands[i].result = "surrender"


-----------------------------------------------------------------------------
(* What clients are sent of a round: _serialize_turn_state *)

\* _is_soft_hand(cards)
is_soft_hand(cards) ==
    /\ \E i \in 1..Len(cards) : card_rank(cards[i]) = "A"
    /\ hand_score(cards)
           > SumSeq([i \in 1..Len(cards) |->
                        IF card_rank(cards[i]) = "A" THEN 1 ELSE card_value(cards[i])])

\* split_map of _should_split: the dealer ranks a pair of `rank` is split against
split_map(rank) ==
    CASE rank \in {"2", "3", "7"} -> {"2", "3", "4", "5", "6", "7"}
      [] rank = "4" -> {"5", "6"}
      [] rank = "6" -> {"2", "3", "4", "5", "6"}
      [] rank = "9" -> {"2", "3", "4", "5", "6", "8", "9"}
      [] OTHER -> {}

\* _should_split(player_cards, dealer_upcard)
should_split(player_cards, dealer_upcard) ==
    LET rank == card_rank(player_cards[1])
    IN  IF rank \in {"A", "8"} THEN TRUE
        ELSE IF rank = "5" THEN FALSE
        ELSE card_rank(dealer_upcard) \in split_map(rank)

\* soft_table: a row per soft total, indexed by the value of the dealer's up-card
\* (the strings of the code start at index 0, the rows here at 1)
soft_table ==
    [player_score \in 13..18 |->
        CASE player_score = 13 -> <<" ", " ", "h", "h", "h", "d", "d", "h", "h", "h", "h", "h">>
          [] player_score = 14 -> <<" ", " ", "h", "h", "h", "d", "d", "h", "h", "h", "h", "h">>
          [] player_score = 15 -> <<" ", " ", "h", "h", "d", "d", "d", "h", "h", "h", "h", "h">>
          [] player_score = 16 -> <<" ", " ", "h", "h", "d", "d", "d", "h", "h", "h", "h", "h">>
          [] player_score = 17 -> <<" ", " ", "h", "d", "d", "d", "d", "h", "h", "h", "h", "h">>
          [] player_score = 18 -> <<" ", " ", "s", "d", "d", "d", "d", "s", "s", "h", "h", "h">>]

\* hard_table: a row per hard total
hard_table ==
    [player_score \in 9..16 |->
        CASE player_score = 9 -> <<" ", " ", "h", "d", "d", "d", "h", "h", "h", "h", "h", "h">>
          [] player_score = 10 -> <<" ", " ", "d", "d", "d", "d", "d", "d", "d", "d", "h", "h">>
          [] player_score = 11 -> <<" ", " ", "d", "d", "d", "d", "d", "d", "d", "d", "d", "h">>
          [] player_score = 12 -> <<" ", " ", "h", "h", "s", "s", "s", "h", "h", "h", "h", "h">>
          [] player_score = 13 -> <<" ", " ", "s", "s", "s", "s", "s", "h", "h", "h", "h", "h">>
          [] player_score = 14 -> <<" ", " ", "s", "s", "s", "s", "s", "h", "h", "h", "h", "h">>
          [] player_score = 15 -> <<" ", " ", "s", "s", "s", "s", "s", "h", "h", "h", "h", "h">>
          [] player_score = 16 -> <<" ", " ", "s", "s", "s", "s", "s", "h", "h", "h", "h", "h">>]

\* {"h": "hit", "s": "stand", "d": "double_down"}.get(code, "hit")
table_move(code) ==
    CASE code = "h" -> "hit" [] code = "s" -> "stand" [] code = "d" -> "double_down"
      [] OTHER -> "hit"

\* _recommended_basic_strategy_action(state): the move, or None
recommended_basic_strategy_action(st) ==
    LET available_actions == available_actions_for_current_turn(st)
    IN  IF Len(available_actions) = 0 THEN None
        ELSE IF Len(current_turn_hand(st).cards) = 0 \/ Len(st.dealer_cards) = 0 THEN None
        ELSE
        LET player_cards == current_turn_hand(st).cards
            dealer_upcard == st.dealer_cards[1]
            player_score == hand_score(player_cards)
            dealer_up_value == card_value(dealer_upcard)
            can_split == /\ Len(player_cards) = 2
                         /\ card_rank(player_cards[1]) = card_rank(player_cards[2])
                         /\ "split" \in Range(available_actions)
            move ==
                IF player_score >= 19 THEN "stand"
                ELSE IF can_split /\ should_split(player_cards, dealer_upcard) THEN "split"
                ELSE IF is_soft_hand(player_cards)
                THEN IF player_score \in DOMAIN soft_table
                        /\ dealer_up_value < Len(soft_table[player_score])
                     THEN table_move(soft_table[player_score][dealer_up_value + 1])
                     ELSE IF player_score >= 19 THEN "stand" ELSE "hit"
                ELSE IF player_score <= 8 THEN "hit"
                ELSE IF player_score >= 17 THEN "stand"
                ELSE IF player_score \in DOMAIN hard_table
                        /\ dealer_up_value < Len(hard_table[player_score])
                     THEN table_move(hard_table[player_score][dealer_up_value + 1])
                     ELSE "hit"
            hit_or(fallback) == IF "hit" \in Range(available_actions) THEN "hit" ELSE fallback
        IN  IF move = "double_down" /\ "double_down" \notin Range(available_actions)
            THEN hit_or("stand")
            ELSE IF move = "split" /\ "split" \notin Range(available_actions)
            THEN hit_or("stand")
            ELSE IF move \notin Range(available_actions) THEN hit_or(available_actions[1])
            ELSE move

\* the dealer's cards sent as they are
visible_dealer_cards_shown(st) == st.dealer_cards

\* _visible_dealer_cards(state)
visible_dealer_cards(st) ==
    IF st.dealer_hidden /\ Len(st.dealer_cards) >= 2
    THEN <<st.dealer_cards[1], "??">>
    ELSE st.dealer_cards

\* _serialize_table_hand(hand); hand ids are not modelled
serialize_table_hand(hand) ==
    [cards |-> hand.cards, score |-> hand_score(hand.cards), bet |-> hand.bet,
     status |-> hand.status, result |-> hand.result, payout |-> hand.payout,
     is_split_hand |-> hand.is_split_hand, doubled_down |-> hand.doubled_down]

\* _serialize_table_player_state(player_state)
serialize_table_player_state(user_id, player_state) ==
    [user_id |-> user_id,
     hands |-> [i \in 1..Len(player_state.hands) |-> serialize_table_hand(player_state.hands[i])],
     active_hand_index |-> player_state.active_hand_index,
     completed |-> player_state.completed,
     base_bet |-> player_state.base_bet,
     bankroll_at_start |-> player_state.bankroll_at_start,
     committed_bet |-> player_state.committed_bet,
     total_payout |-> player_state.total_payout,
     insurance_bet |-> player_state.insurance_bet,
     insurance_decided |-> player_state.insurance_decided,
     insurance_payout |-> player_state.insurance_payout]

\* _serialize_turn_state(state). A value that may be None is <<>> or <<value>>;
\* turn_remaining_seconds is 0 from the deadline on and the seconds left before
\* it, of which the model knows that they are positive; the table id, hand
\* number and the two timestamps are not modelled.
serialize_turn_state(st) ==
    LET visible == visible_dealer_cards(st)
    IN  [round_id |-> st.round_id,
         status |-> st.status,
         phase |-> st.phase,
         players |-> st.players,
         turn_index |-> IF st.status = "active" THEN <<st.turn_index>> ELSE <<>>,
         current_turn_user_id |-> current_turn_user_id(st),
         current_hand_index |->
             IF current_turn_user_id(st) # None /\ has_current_player_state(st)
             THEN <<current_turn_player_state(st).active_hand_index>> ELSE <<>>,
         turn_seconds |-> st.turn_seconds,
         turn_deadline |-> IF st.status = "active" THEN <<st.turn_deadline>> ELSE <<>>,
         turn_remaining_seconds |->
             IF st.status = "active" /\ st.turn_deadline # "elapsed" THEN "positive" ELSE "0",
         available_actions |-> available_actions_for_current_turn(st),
         recommended_action |-> recommended_basic_strategy_action(st),
         dealer_cards |-> visible,
         dealer_score |->
             IF Len(visible) = 1 THEN <<card_value(visible[1])>>
             ELSE IF Len(visible) > 1 /\ "??" \notin Range(visible) THEN <<hand_score(visible)>>
             ELSE <<>>,
         dealer_hidden |-> st.dealer_hidden,
         player_states |-> [u \in DOMAIN st.player_states |->
                               serialize_table_player_state(u, st.player_states[u])],
         last_action |-> st.last_action,
         action_count |-> Len(st.action_log)]


-----------------------------------------------------------------------------
(* The hole card in what clients are sent *)

\* the round states that differ from st in nothing but the hole card and the
\* undealt shoe
HoleCardVariants(st) ==
    {[st EXCEPT !.dealer_cards[2] = hole, !.shoe = shoe]
     : hole \in Range(RANKS),
       shoe \in {st.shoe, build_deck, forced_shoe_deck(<<st.dealer_cards[2]>>)}}

\* C38: while a round is in phase player_turns its serialized state does not
\* reveal the dealer's hole card: round states that differ only in the hole card
\* and the undealt shoe serialize to the same payload, in which the dealer's cards
\* are the up-card and a placeholder, there is no dealer score, and the available
\* and recommended actions are the same
C38_HoleCardNotRevealed ==
    (InRound /\ turn_state.phase = "player_turns") =>
        LET sent == serialize_turn_state(turn_state)
        IN  /\ \A v \in HoleCardVariants(turn_state) : serialize_turn_state(v) = sent
            /\ sent.dealer_cards = <<turn_state.dealer_cards[1], "??">>
            /\ sent.dealer_score = <<>>

\* the dealer holds a natural under an ace, a player has acted, and the player to
\* act is offered insurance and given a recommendation
C38_Witness ==
    /\ InRound
    /\ turn_state.phase = "player_turns"
    /\ turn_state.dealer_cards = <<"A", "K">>
    /\ Len(turn_state.action_log) > 1
    /\ "insurance" \in Range(serialize_turn_state(turn_state).available_actions)
    /\ serialize_turn_state(turn_state).recommended_action # None


-----------------------------------------------------------------------------
(* The lobby: lobby_service.py *)

\* the most tables created in one exploration
MaxTables == 3
\* TableCreateRequest.max_players of the requests explored (2 to 8 are valid)
RequestedMaxPlayers == {2, 3}
\* the invite codes uuid4().hex[:6].upper() hands out, in the order it does
NewInviteCodes == <<"C1", "C2", "C3", "C4", "C5">>
\* the invite codes requests carry: a code as handed out, one typed in lower case
\* and one that no table has
RequestedInviteCodes == {"C1", "c1", "C9"}

\* str.upper() of an invite code
upper(code) == IF code = "c1" THEN "C1" ELSE code

\* f with its domain cut down to S
Restrict(f, S) == [x \in S |-> f[x]]

\* the dataclass LobbyTable; invite_code is None for a public table, and the
\* name is not modelled
LobbyTable(id, owner_id, max_players, is_private, invite_code, players) ==
    [id |-> id, owner_id |-> owner_id, max_players |-> max_players,
     is_private |-> is_private, invite_code |-> invite_code, players |-> players]

\* LobbyService._remove_user_from_all_tables_locked(user_id, keep_table_id): the
\* tables afterwards
remove_user_from_all_tables_locked(tables, user_id, keep_table_id) ==
    LET touched == {t \in DOMAIN tables : t # keep_table_id /\ user_id \in Range(tables[t].players)}
        stripped == [t \in DOMAIN tables |->
                        IF t \in touched
                        THEN [tables[t] EXCEPT !.players = RemoveFromSeq(@, user_id)]
                        ELSE tables[t]]
        empty_table_ids == {t \in touched : Len(stripped[t].players) = 0}
    IN  Restrict(stripped, DOMAIN tables \ empty_table_ids)

\* LobbyService.create_table(owner_id, payload) with the ids uuid4() hands out:
\* the tables afterwards
create_table(tables, table_id, invite_code, owner_id, max_players, is_private) ==
    LET cleared == remove_user_from_all_tables_locked(tables, owner_id, None)
        table == LobbyTable(table_id, owner_id, max_players, is_private,
                            IF is_private THEN invite_code ELSE None, <<owner_id>>)
    IN  [t \in DOMAIN cleared \cup {table_id} |-> IF t = table_id THEN table ELSE cleared[t]]

\* LobbyService.join_table(table_id, user_id): the id of the table returned (None
\* for None) and the tables afterwards
join_table(tables, table_id, user_id) ==
    IF table_id \notin DOMAIN tables THEN [table |-> None, tables |-> tables]
    ELSE IF user_id \in Range(tables[table_id].players)
    THEN [table |-> table_id, tables |-> tables]
    ELSE IF Len(tables[table_id].players) >= tables[table_id].max_players
    THEN [table |-> None, tables |-> tables]
    ELSE [table |-> table_id,
          tables |-> [remove_user_from_all_tables_locked(tables, user_id, table_id)
                        EXCEPT ![table_id].players = Append(@, user_id)]]

\* the table whose invite code is `normalized`, None for none (the codes handed
\* out differ from table to table)
table_with_invite_code(tables, normalized) ==
    IF \E t \in DOMAIN tables : tables[t].invite_code = normalized
    THEN CHOOSE t \in DOMAIN tables : tables[t].invite_code = normalized
    ELSE None

\* LobbyService.join_table_by_invite_code(invite_code, user_id)
join_table_by_invite_code(tables, invite_code, user_id) ==
    LET table_id == table_with_invite_code(tables, upper(invite_code))
    IN  IF table_id = None THEN [table |-> None, tables |-> tables]
        ELSE join_table(tables, table_id, user_id)

\* LobbyService.leave_table(table_id, user_id): the tables afterwards
leave_table(tables, table_id, user_id) ==
    IF table_id \notin DOMAIN tables THEN tables
    ELSE IF user_id \notin Range(tables[table_id].players) THEN tables
    ELSE LET players == RemoveFromSeq(tables[table_id].players, user_id)
         IN  IF Len(players) = 0 THEN Restrict(tables, DOMAIN tables \ {table_id})
             ELSE [tables EXCEPT ![table_id].players = players,
                                 ![table_id].owner_id =
                                     IF @ = user_id THEN players[1] ELSE @]

\* LobbyService.close_table(table_id): the tables afterwards
close_table(tables, table_id) == Restrict(tables, DOMAIN tables \ {table_id})

\* the calls of the methods of the lobby service

LobbyCreateTable(owner_id, max_players, is_private) ==
    /\ tables_created < MaxTables
    /\ lobby_tables' = create_table(lobby_tables, NewTableIds[tables_created + 1],
                                    NewInviteCodes[tables_created + 1],
                                    owner_id, max_players, is_private)
    /\ tables_created' = tables_created + 1
    /\ UNCHANGED <<table_vars, side_vars, timer_sweep, table_chat_banned, moderation_suspended>>

LobbyJoinTable(table_id, user_id) ==
    /\ lobby_tables' = join_table(lobby_tables, table_id, user_id).tables
    /\ UNCHANGED <<table_vars, side_vars, timer_sweep, tables_created, table_chat_banned,
                   moderation_suspended>>

LobbyJoinTableByInviteCode(invite_code, user_id) ==
    /\ lobby_tables' = join_table_by_invite_code(lobby_tables, invite_code, user_id).tables
    /\ UNCHANGED <<table_vars, side_vars, timer_sweep, tables_created, table_chat_banned,
                   moderation_suspended>>

LobbyLeaveTable(table_id, user_id) ==
    /\ lobby_tables' = leave_table(lobby_tables, table_id, user_id)
    /\ UNCHANGED <<table_vars, side_vars, timer_sweep, tables_created, table_chat_banned,
                   moderation_suspended>>

LobbyCloseTable(table_id) ==
    /\ lobby_tables' = close_table(lobby_tables, table_id)
    /\ UNCHANGED <<table_vars, side_vars, timer_sweep, tables_created, table_chat_banned,
                   moderation_suspended>>

\* a lobby with no table and no table engine running
InitLobby ==
    /\ table_players = <<>>
    /\ table_forced_shoes = <<>>
    /\ table_ready = {}
    /\ table_pending_bets = NoBets
    /\ turn_state = NoRound
    /\ balance = InitialBalance
    /\ db_last = "none"
    /\ used_round_ids = {}
    /\ set_ready_suspended = 0
    /\ scored_hand = <<>>
    /\ scored_total = <<>>
    /\ user_to_sids = [u \in Users |-> {}]
    /\ reconnect_deadlines = [u \in Users |-> None]
    /\ timer_sweep = NoSweep
    /\ lobby_tables = NoTables
    /\ tables_created = 0
    /\ table_chat_banned = NoBans
    /\ moderation_suspended = NoModeration

NextLobby ==
    \/ \E u \in Users, max_players \in RequestedMaxPlayers, is_private \in BOOLEAN :
           LobbyCreateTable(u, max_players, is_private)
    \/ \E t \in Range(NewTableIds), u \in Users : LobbyJoinTable(t, u)
    \/ \E code \in RequestedInviteCodes, u \in Users : LobbyJoinTableByInviteCode(code, u)
    \/ \E t \in Range(NewTableIds), u \in Users : LobbyLeaveTable(t, u)
    \/ \E t \in Range(NewTableIds) : LobbyCloseTable(t)

SpecLobby == InitLobby /\ [][NextLobby]_vars


-----------------------------------------------------------------------------
(* The owner of a table *)

\* C39: after any sequence of create_table, join_table,
\* join_table_by_invite_code, leave_table and close_table operations on the
\* lobby, the owner_id of every existing table is one of that table's current
\* players
C39_OwnerIsAPlayer ==
    \A t \in DOMAIN lobby_tables :
        lobby_tables[t].owner_id \in Range(lobby_tables[t].players)


-----------------------------------------------------------------------------
(* Tables and bans over the socket: create_table, join_table, leave_table,
   moderate_table_chat, admin commands *)

\* the users who send moderate_table_chat: a player and a moderator who sits at
\* no table
ModerationIdentities ==
    {[user_id |-> "u1", role |-> "player"], [user_id |-> "m1", role |-> "mod"]}
\* the table ids requests carry: "" stands for none given
RequestedTableIds == {"", "t1", "t2"}
\* the tables and users that moderation requests name
ModeratedTableIds == {"t1"}
ModeratedUsers == {"u1", "u2"}
ModerationActions == {"ban", "unban"}
AdminModerationCommands == {"kick", "ban", "unban"}

\* LobbyService.table_ids_for_user(user_id), in the order of the dict
lobby_table_ids_for_user(tables, user_id) ==
    SelectSeq(NewTableIds,
              LAMBDA t : t \in DOMAIN tables /\ user_id \in Range(tables[t].players))

\* _is_user_banned(table_id, user_id)
is_user_banned(banned, table_id, user_id) ==
    table_id \in DOMAIN banned /\ user_id \in banned[table_id]

\* _can_manage_table(identity, table)
can_manage_table(tables, identity, table_id) ==
    /\ table_id \in DOMAIN tables
    /\ \/ tables[table_id].owner_id = identity.user_id
       \/ has_role_at_least(identity.role, "mod")

\* _emit_table_snapshot(table_id) for each of table_ids: _remove_table_social_state
\* drops the bans of a table that is gone; the bans afterwards
emit_table_snapshots(tables, banned, table_ids) ==
    [t \in DOMAIN banned |-> IF t \in table_ids /\ t \notin DOMAIN tables THEN {} ELSE banned[t]]

\* a moderation that leaves the user at the table
moderation_leaves_table_skipped(tables, table_id, user_id) == tables

\* what _remove_user_from_table_for_moderation does to the lobby: the tables
\* afterwards
moderation_leaves_table(tables, table_id, user_id) ==
    IF table_id \notin DOMAIN tables \/ user_id \notin Range(tables[table_id].players)
    THEN tables
    ELSE leave_table(tables, table_id, user_id)

\* the reply of a handler with the lobby and the bans it leaves behind
lobby_reply(ok, error, tables, banned) ==
    [ok |-> ok, error |-> error, tables |-> tables, banned |-> banned]

\* create_table(sid, data) by user_id with a valid payload
sio_create_table(tables, banned, user_id, table_id, invite_code, max_players, is_private) ==
    LET previous_table_ids == Range(lobby_table_ids_for_user(tables, user_id))
        created == create_table(tables, table_id, invite_code, user_id, max_players, is_private)
    IN  lobby_reply(TRUE, None, created,
                    emit_table_snapshots(created, banned, previous_table_ids \ {table_id}))

\* join_table(sid, {table_id, invite_code}) by user_id, with no table locked and
\* no round registered
sio_join_table(tables, banned, user_id, table_id, invite_code) ==
    LET previous_table_ids == Range(lobby_table_ids_for_user(tables, user_id))
        by_id == IF table_id # "" /\ table_id \in DOMAIN tables THEN table_id ELSE None
        target_table == IF invite_code # "" /\ by_id = None
                        THEN table_with_invite_code(tables, upper(invite_code))
                        ELSE by_id
    IN  IF target_table # None /\ is_user_banned(banned, target_table, user_id)
        THEN lobby_reply(FALSE, "you are banned from this table", tables, banned)
        ELSE IF table_id = "" /\ invite_code = ""
        THEN lobby_reply(FALSE, "table_id or invite_code required", tables, banned)
        ELSE LET joined == IF table_id # "" THEN join_table(tables, table_id, user_id)
                           ELSE join_table_by_invite_code(tables, invite_code, user_id)
             IN  IF joined.table = None
                 THEN lobby_reply(FALSE, "Unable to join table", joined.tables, banned)
                 ELSE lobby_reply(TRUE, None, joined.tables,
                                  emit_table_snapshots(joined.tables, banned,
                                                       previous_table_ids \ {joined.table}))

\* leave_table(sid, {table_id}) by user_id
sio_leave_table(tables, banned, user_id, requested_table_id) ==
    LET table_ids == lobby_table_ids_for_user(tables, user_id)
        table_id == IF requested_table_id # "" THEN requested_table_id
                    ELSE IF table_ids # <<>> THEN table_ids[1] ELSE ""
    IN  IF table_id = "" THEN lobby_reply(TRUE, None, tables, banned)
        ELSE LET left == leave_table(tables, table_id, user_id)
             IN  lobby_reply(TRUE, None, left, emit_table_snapshots(left, banned, {table_id}))

\* moderate_table_chat(sid, {table_id, target_user_id, action}) from the return of
\* `await sio.get_session(sid)` on
moderate_table_chat(tables, banned, identity, table_id, target_user_id, action) ==
    IF table_id \notin DOMAIN tables THEN lobby_reply(FALSE, "table not found", tables, banned)
    ELSE IF ~can_manage_table(tables, identity, table_id)
    THEN lobby_reply(FALSE, "only table owner can moderate chat", tables, banned)
    ELSE IF target_user_id = identity.user_id
    THEN lobby_reply(FALSE, "cannot moderate yourself", tables, banned)
    ELSE IF action \notin {"mute", "unmute", "ban", "unban"}
    THEN lobby_reply(FALSE, "invalid moderation action", tables, banned)
    ELSE IF action = "ban"
    THEN LET left == moderation_leaves_table(tables, table_id, target_user_id)
         IN  lobby_reply(TRUE, None, left,
                         emit_table_snapshots(
                             left, [banned EXCEPT ![table_id] = @ \cup {target_user_id}],
                             {table_id}))
    ELSE IF action = "unban"
    THEN lobby_reply(TRUE, None, tables, [banned EXCEPT ![table_id] = @ \ {target_user_id}])
    ELSE lobby_reply(TRUE, None, tables, banned)

\* the branches kick, ban and unban of _execute_admin_command for a target user
\* the database knows, sent by an administrator
admin_moderation(tables, banned, command_name, target_user_id, table_arg) ==
    LET table_ids == lobby_table_ids_for_user(tables, target_user_id)
        table_id == IF table_arg # "" THEN table_arg
                    ELSE IF table_ids # <<>> THEN table_ids[1] ELSE ""
    IN  IF table_id = "" \/ table_id \notin DOMAIN tables
        THEN lobby_reply(FALSE, "table not found for target user", tables, banned)
        ELSE IF command_name = "kick"
        THEN LET left == moderation_leaves_table(tables, table_id, target_user_id)
             IN  lobby_reply(TRUE, None, left, emit_table_snapshots(left, banned, {table_id}))
        ELSE IF command_name = "ban"
        THEN LET left == moderation_leaves_table(tables, table_id, target_user_id)
             IN  lobby_reply(TRUE, None, left,
                             emit_table_snapshots(
                                 left, [banned EXCEPT ![table_id] = @ \cup {target_user_id}],
                                 {table_id}))
        ELSE lobby_reply(TRUE, None, tables, [banned EXCEPT ![table_id] = @ \ {target_user_id}])

\* the lobby and the bans become what the handler leaves behind
LobbyBecomes(reply) ==
    /\ lobby_tables' = reply.tables
    /\ table_chat_banned' = reply.banned
    /\ UNCHANGED <<table_vars, side_vars, timer_sweep>>

SioCreateTable(user_id, max_players, is_private) ==
    /\ tables_created < MaxTables
    /\ LobbyBecomes(sio_create_table(lobby_tables, table_chat_banned, user_id,
                                     NewTableIds[tables_created + 1],
                                     NewInviteCodes[tables_created + 1],
                                     max_players, is_private))
    /\ tables_created' = tables_created + 1
    /\ UNCHANGED moderation_suspended

SioJoinTable(user_id, table_id, invite_code) ==
    /\ LobbyBecomes(sio_join_table(lobby_tables, table_chat_banned, user_id, table_id,
                                   invite_code))
    /\ UNCHANGED <<tables_created, moderation_suspended>>

SioLeaveTable(user_id, requested_table_id) ==
    /\ LobbyBecomes(sio_leave_table(lobby_tables, table_chat_banned, user_id,
                                    requested_table_id))
    /\ UNCHANGED <<tables_created, moderation_suspended>>

\* moderate_table_chat up to its `await sio.get_session(sid)`
ModerateTableChat(identity, table_id, target_user_id, action) ==
    /\ moderation_suspended = NoModeration
    /\ moderation_suspended' = [actor |-> identity, table_id |-> table_id,
                                target_user_id |-> target_user_id, action |-> action]
    /\ UNCHANGED <<table_vars, side_vars, timer_sweep, lobby_tables, tables_created,
                   table_chat_banned>>

\* ... and from there on, after other handlers have run
ModerateTableChatResumes ==
    /\ moderation_suspended # NoModeration
    /\ LobbyBecomes(moderate_table_chat(lobby_tables, table_chat_banned,
                                        moderation_suspended.actor,
                                        moderation_suspended.table_id,
                                        moderation_suspended.target_user_id,
                                        moderation_suspended.action))
    /\ moderation_suspended' = NoModeration
    /\ UNCHANGED tables_created

AdminModeration(command_name, target_user_id, table_arg) ==
    /\ LobbyBecomes(admin_moderation(lobby_tables, table_chat_banned, command_name,
                                     target_user_id, table_arg))
    /\ UNCHANGED <<tables_created, moderation_suspended>>

InitModeration == InitLobby

NextModeration ==
    \/ \E u \in Users, is_private \in BOOLEAN : SioCreateTable(u, 3, is_private)
    \/ \E u \in Users, t \in RequestedTableIds, code \in {"", "c1"} : SioJoinTable(u, t, code)
    \/ \E u \in Users, t \in RequestedTableIds : SioLeaveTable(u, t)
    \/ \E identity \in ModerationIdentities, t \in ModeratedTableIds, u \in ModeratedUsers,
          action \in ModerationActions :
           ModerateTableChat(identity, t, u, action)
    \/ ModerateTableChatResumes
    \/ \E command_name \in AdminModerationCommands, u \in ModeratedUsers,
          t \in ModeratedTableIds \cup {""} :
           AdminModeration(command_name, u, t)

SpecModeration == InitModeration /\ [][NextModeration]_vars


-----------------------------------------------------------------------------
(* Banned users *)

\* nobody who is banned from a table sits at it
NoBannedPlayer(tables, banned) ==
    \A t \in DOMAIN tables : banned[t] \cap Range(tables[t].players) = {}

\* the players of every table
Membership(tables) == [t \in DOMAIN tables |-> tables[t].players]

\* C40: after any sequence of real-time create_table, join_table, leave_table,
\* kick, ban and unban operations, interleaved at their suspension points, a user
\* who is banned from a table is not in the player list of that table: a ban
\* removes a seated user, and join_table refuses a banned user and changes no
\* membership
C40_BannedUserIsNotSeated ==
    /\ NoBannedPlayer(lobby_tables, table_chat_banned)
    /\ \A t \in DOMAIN lobby_tables, u \in Users :
           /\ \A identity \in ModerationIdentities :
                  LET reply == moderate_table_chat(lobby_tables, table_chat_banned,
                                                   identity, t, u, "ban")
                  IN  reply.ok =>
                          /\ u \in reply.banned[t] \/ t \notin DOMAIN reply.tables
                          /\ NoBannedPlayer(reply.tables, reply.banned)
           /\ LET reply == admin_moderation(lobby_tables, table_chat_banned, "ban", u, t)
              IN  /\ reply.ok
                  /\ u \in reply.banned[t] \/ t \notin DOMAIN reply.tables
                  /\ NoBannedPlayer(reply.tables, reply.banned)
           /\ u \in table_chat_banned[t] =>
                  \A code \in {"", "c1"} :
                      LET reply == sio_join_table(lobby_tables, table_chat_banned, u, t, code)
                      IN  /\ ~reply.ok
                          /\ Membership(reply.tables) = Membership(lobby_tables)

\* a user is banned from a table where others still sit, holds a seat at
\* another table, and a ban of a seated player is waiting to go on
C40_Witness ==
    /\ \E t \in DOMAIN lobby_tables, u \in Users :
           /\ u \in table_chat_banned[t]
           /\ \E other \in DOMAIN lobby_tables \ {t} : u \in Range(lobby_tables[other].players)
    /\ moderation_suspended # NoModeration
    /\ moderation_suspended.action = "ban"
    /\ moderation_suspended.table_id \in DOMAIN lobby_tables
    /\ moderation_suspended.target_user_id
           \in Range(lobby_tables[moderation_suspended.table_id].players)
    /\ can_manage_table(lobby_tables, moderation_suspended.actor,
                        moderation_suspended.table_id)

====
